---- MODULE Spec2Model ----
(***************************************************************************)
(* A model of the simulation worker of rc-slot-sim (src/worker/simWorker.ts *)
(* as contained in src/src/components/IntroFoldoutGroup.tsx, lines 85-594). *)
(*                                                                         *)
(* Units.  Money is a JavaScript double in dollars.  The model keeps money  *)
(* as an integer number of ticks of 0.5e-9 dollars, so that the 1e-9       *)
(* tolerance of the top-up test is 2 ticks and one cent is 20,000,000      *)
(* ticks.  Arithmetic on ticks is exact; the rounding error of doubles is  *)
(* not modelled.  Multipliers are kept in thousandths.                     *)
(*                                                                         *)
(* 32-bit words are pairs <<hi, lo>> of 16-bit halves, because the values  *)
(* of the generator do not fit the integers of the model checker.          *)
(***************************************************************************)
EXTENDS Integers, Sequences, FiniteSets, TLC

(***************************************************************************)
(* Bounds of the model.                                                    *)
(***************************************************************************)
\* simulate messages the environment sends in the two-request universe
MaxRequests == 2
\* cancel messages the environment sends
MaxCancels == 2
\* spins of one session the model follows one by one
MaxSpins == 5
\* Math.random() values the environment supplies for one spin
MaxDraws == 4
\* samples of the cap-adjustment pre-pass (the code takes 2,000,000)
CapSamples == 2
\* readings of the wall clock
MaxClock == 2
\* values one evaluation draws for sampleMultiplier
MaxSamples == 2
MaxSorted == 5
MaxTrace == 4

(***************************************************************************)
(* Program constants.                                                      *)
(***************************************************************************)
\* ticks per cent: bet = spinBetCents / 100 dollars
Cent == 20000000
\* the tolerance 1e-9 of the top-up test, in ticks
Eps == 2
\* the least top-up amount, 0.01 dollars, in cents
MinDepositCents == 1
\* the least spin rate, 0.01 spins per second, in hundredths
MinSpinRate == 1

(***************************************************************************)
(* 32-bit arithmetic on <<hi, lo>> pairs.                                  *)
(***************************************************************************)
Half == 256 * 256

\* the element of a one-element set; { F(v) : v \in {e} } evaluates e once,
\* which is how the operators below take their arguments
Only(S) == CHOOSE v \in S : TRUE

RECURSIVE BitXor(_, _, _)
BitXor(a, b, n) ==
    IF n = 0 THEN 0
    ELSE Only({ ((p[1] + p[2]) % 2) + 2 * BitXor(p[1] \div 2, p[2] \div 2, n - 1) :
                p \in {<<a, b>>} })

RECURSIVE BitOr(_, _, _)
BitOr(a, b, n) ==
    IF n = 0 THEN 0
    ELSE Only({ (IF (p[1] % 2) + (p[2] % 2) > 0 THEN 1 ELSE 0)
                + 2 * BitOr(p[1] \div 2, p[2] \div 2, n - 1) :
                p \in {<<a, b>>} })

RECURSIVE Pow2(_)
Pow2(n) == IF n = 0 THEN 1 ELSE 2 * Pow2(n - 1)

\* x ^ y
XorW(x, y) ==
    Only({ <<BitXor(a[1], b[1], 16), BitXor(a[2], b[2], 16)>> : a \in {x}, b \in {y} })

\* x | y
OrW(x, y) ==
    Only({ <<BitOr(a[1], b[1], 16), BitOr(a[2], b[2], 16)>> : a \in {x}, b \in {y} })

\* x >>> n, for 0 < n < 32
ShrW(x, n) ==
    Only({ IF n >= 16 THEN <<0, a[1] \div Pow2(n - 16)>>
           ELSE <<a[1] \div Pow2(n),
                  (a[2] \div Pow2(n)) + (a[1] % Pow2(n)) * Pow2(16 - n)>> :
           a \in {x} })

\* x << n, for 0 < n < 16
ShlW(x, n) ==
    Only({ <<((a[1] % Pow2(16 - n)) * Pow2(n)) + (a[2] \div Pow2(16 - n)),
             (a[2] % Pow2(16 - n)) * Pow2(n)>> :
           a \in {x} })

\* (x + y) mod 2^32
AddW(x, y) ==
    Only({ <<(a[1] + b[1] + ((a[2] + b[2]) \div Half)) % Half, (a[2] + b[2]) % Half>> :
           a \in {x}, b \in {y} })

\* (a * b) mod 2^16 for 16-bit a, b
MulLow16(a, b) ==
    ((a * (b % 256)) + ((a * (b \div 256)) % 256) * 256) % Half

\* Math.imul(x, y): the low 32 bits of the product
Imul(x, y) ==
    Only({ Only({ Only({ <<((B \div 256) + (lo \div Half)
                            + MulLow16(a[1], b[2]) + MulLow16(a[2], b[1])) % Half,
                           lo % Half>> :
                         lo \in {(a[2] * (b[2] % 256)) + (B % 256) * 256} }) :
                  B \in {a[2] * (b[2] \div 256)} }) :
           a \in {x}, b \in {y} })

\* x < y as unsigned 32-bit numbers
LessW(x, y) == x[1] < y[1] \/ (x[1] = y[1] /\ x[2] < y[2])

ZeroW == <<0, 0>>

(***************************************************************************)
(* The seeded generator: xmur3 hashes the seed string (a sequence of       *)
(* character codes) to a 32-bit seed, mulberry32 expands it.               *)
(***************************************************************************)
RECURSIVE Xmur3Hash(_, _, _)
Xmur3Hash(h, str, i) ==
    IF i > Len(str) THEN h
    ELSE Only({ Only({ Xmur3Hash(h2, str, i + 1) :
                         h2 \in {OrW(ShlW(h1, 13), ShrW(h1, 19))} }) :
                h1 \in {Imul(XorW(h, <<0, str[i]>>), <<52382, 11601>>)} })

\* xmur3(str)(): the first value of the seed function
Xmur3(str) ==
    Only({ Only({ Only({ XorW(h2, ShrW(h2, 16)) :
        h2 \in {Imul(XorW(h1, ShrW(h1, 13)), <<49842, 44597>>)} }) :
        h1 \in {Imul(XorW(h0, ShrW(h0, 16)), <<34283, 51819>>)} }) :
        h0 \in {Xmur3Hash(XorW(<<27145, 58983>>, <<0, Len(str)>>), str, 1)} })

\* t += 0x6d2b79f5.  The code keeps t as a double that is never truncated;
\* every use of it is a 32-bit operation, so t is kept modulo 2^32 (exact
\* while t < 2^53, which holds for the draw counts of the model).
Mulberry32Step(t) == AddW(t, <<27947, 31221>>)

\* the 32-bit value whose quotient by 2^32 the generator returns
Mulberry32Out(t) ==
    Only({ Only({ XorW(x2, ShrW(x2, 14)) :
        x2 \in {XorW(x1, AddW(x1, Imul(XorW(x1, ShrW(x1, 7)), OrW(x1, <<0, 61>>))))} }) :
        x1 \in {Imul(XorW(t, ShrW(t, 15)), OrW(t, <<0, 1>>))} })

(***************************************************************************)
(* Random streams.  A stream is [seeded, t, oracle]: a seeded stream       *)
(* carries the state t of mulberry32; an unseeded one stands for           *)
(* Math.random() and takes its next values from the oracle, the values the *)
(* environment supplies for the step at hand.  A draw is [ok, v, s]: the   *)
(* 32-bit value v (the number drawn is v / 2^32) and the stream after it;  *)
(* ok is FALSE when the oracle has run out.                                *)
(***************************************************************************)
SeedlessChars == <<115, 101, 101, 100, 108, 101, 115, 115>>

CapSuffix == <<45, 99, 97, 112>>

\* a seed is [isNull, chars]; createRng(seed)
CreateRng(seed) ==
    IF seed.isNull \/ seed.chars = <<>>
    THEN [seeded |-> FALSE, t |-> ZeroW, oracle |-> <<>>]
    ELSE [seeded |-> TRUE, t |-> Xmur3(seed.chars), oracle |-> <<>>]

\* the seed of the cap stream: `${inputs.seed ?? 'seedless'}-cap`
CapSeed(seed) ==
    [isNull |-> FALSE,
     chars  |-> (IF seed.isNull THEN SeedlessChars ELSE seed.chars) \o CapSuffix]

\* rng()
Draw(s) ==
    IF s.seeded
    THEN Only({ [ok |-> TRUE, v |-> Mulberry32Out(t1), s |-> [s EXCEPT !.t = t1]] :
                t1 \in {Mulberry32Step(s.t)} })
    ELSE IF s.oracle = <<>>
         THEN [ok |-> FALSE, v |-> ZeroW, s |-> s]
         ELSE [ok |-> TRUE, v |-> Head(s.oracle),
               s |-> [s EXCEPT !.oracle = Tail(s.oracle)]]

\* let u = 0; while (u === 0) u = rng();
RECURSIVE DrawNonZero(_)
DrawNonZero(s) ==
    Only({ IF d.ok /\ d.v = ZeroW THEN DrawNonZero(d.s) ELSE d : d \in {Draw(s)} })

(***************************************************************************)
(* The payout shape.  The code computes with Math.sqrt, log, cos and exp;  *)
(* the model evaluates them on a grid: randomNormal is taken at the        *)
(* midpoint of the quarter of [0,1) that holds u and of the eighth that    *)
(* holds v, rounded to an integer z in -2..2; exp and the logarithmic      *)
(* acceptance test of gammaSample are tabulated at these z.                *)
(***************************************************************************)
\* round(sqrt(-2 ln u) cos(2 pi v)) at the midpoints; row = quarter of u
NormalTable ==
    << << 2,  1, -1, -2, -2, -1,  1,  2>>,
       << 1,  1, -1, -1, -1, -1,  1,  1>>,
       << 1,  0,  0, -1, -1,  0,  0,  1>>,
       << 0,  0,  0,  0,  0,  0,  0,  0>> >>

\* randomNormal(rng): [ok, z, s]
RandomNormal(s) ==
    Only({ IF ~u.ok THEN [ok |-> FALSE, z |-> 0, s |-> u.s]
           ELSE Only({ IF ~v.ok THEN [ok |-> FALSE, z |-> 0, s |-> v.s]
                       ELSE [ok |-> TRUE,
                             z  |-> NormalTable[(u.v[1] \div 16384) + 1]
                                               [(v.v[1] \div 8192) + 1],
                             s  |-> v.s]
                     : v \in {DrawNonZero(u.s)} })
         : u \in {DrawNonZero(s)} })

\* d = k - 1/3 and c = 1 / sqrt(9 d), in thousandths, for k = 6 and k = 2
GammaD(k) == (k * 1000) - 333

GammaC(k) == IF k = 6 THEN 140 ELSE 258

\* exp(0.5 x^2 + d (1 - v + ln v)) in ten-thousandths at x = z, v = (1 + c z)^3
GammaLogBound(k, z) ==
    IF k = 6 THEN <<9668, 9982, 10000, 9985, 9788>>[z + 3]
    ELSE <<8570, 9930, 10000, 9954, 9388>>[z + 3]

\* v * v * v for v in thousandths
GammaCube(v) == (((v * v) \div 1000) * v) \div 1000

\* u < bound / 10000, on the high half of u
BelowTenThousandths(u, bound) == u[1] * 10000 < bound * Half

\* gammaSample(k, rng) for k >= 1 (both tiers that use it have k >= 1):
\* [ok, raw, s] with raw = d v in thousandths
RECURSIVE GammaSample(_, _)
GammaSample(k, s) ==
    Only({ IF ~n.ok THEN [ok |-> FALSE, raw |-> 0, s |-> n.s]
           ELSE IF 1000 + GammaC(k) * n.z <= 0 THEN GammaSample(k, n.s)
           ELSE Only({
                  IF ~u.ok THEN [ok |-> FALSE, raw |-> 0, s |-> u.s]
                  ELSE IF BelowTenThousandths(u.v, 10000 - 331 * n.z * n.z * n.z * n.z)
                          \/ BelowTenThousandths(u.v, GammaLogBound(k, n.z))
                       THEN [ok  |-> TRUE,
                             raw |-> (GammaD(k) * GammaCube(1000 + GammaC(k) * n.z)) \div 1000,
                             s   |-> u.s]
                       ELSE GammaSample(k, u.s)
                : u \in {Draw(n.s)} })
         : n \in {RandomNormal(s)} })

\* Math.exp(muL + sigma * z) in thousandths, sigma = 1.3, muL = -sigma^2 / 2
LogNormalRaw(z) == <<32, 117, 430, 1576, 5783>>[z + 3]

\* VOLATILITY_SETTINGS; p0Word is the least 32-bit value v with v / 2^32 >= p0
VOLATILITY_SETTINGS ==
    [LOW    |-> [p0 |-> 550, p0Word |-> <<36044, 52429>>, type |-> "gamma",
                 k |-> 6, cap |-> 50],
     MEDIUM |-> [p0 |-> 700, p0Word |-> <<45875, 13108>>, type |-> "gamma",
                 k |-> 2, cap |-> 200],
     HIGH   |-> [p0 |-> 820, p0Word |-> <<53739, 34079>>, type |-> "lognormal",
                 k |-> 0, cap |-> 2000]]

\* the raw shape value both samplePayout and computeCapAdjustment draw:
\* [ok, raw, s], raw in thousandths
RawSample(settings, s) ==
    IF settings.type = "gamma"
    THEN Only({ [ok |-> g.ok, raw |-> g.raw \div settings.k, s |-> g.s] :
                g \in {GammaSample(settings.k, s)} })
    ELSE Only({ [ok |-> n.ok, raw |-> LogNormalRaw(n.z), s |-> n.s] :
                n \in {RandomNormal(s)} })

\* muNonzero * raw, capped at settings.cap; thousandths
CappedValue(settings, muNonzero, raw) ==
    LET value == (muNonzero * raw) \div 1000
    IN  IF value > settings.cap * 1000 THEN settings.cap * 1000 ELSE value

\* samplePayout(bet, settings, muNonzero, capAdjustment, rng) with
\* bet = spinBetCents / 100: [ok, payout, s], payout in ticks
SamplePayout(spinBetCents, settings, muNonzero, capAdjustment, s) ==
    Only({ IF ~d.ok THEN [ok |-> FALSE, payout |-> 0, s |-> d.s]
           ELSE IF LessW(d.v, settings.p0Word) THEN [ok |-> TRUE, payout |-> 0, s |-> d.s]
           ELSE Only({ [ok     |-> r.ok,
                        payout |-> spinBetCents * (Cent \div 1000)
                                   * ((CappedValue(settings, muNonzero, r.raw)
                                       * capAdjustment) \div 1000),
                        s      |-> r.s] :
                       r \in {RawSample(settings, d.s)} })
         : d \in {Draw(s)} })

\* the loop of computeCapAdjustment: the sum of CapSamples capped values
RECURSIVE CapSum(_, _, _, _, _)
CapSum(settings, muNonzero, s, i, sum) ==
    IF i >= CapSamples THEN [sum |-> sum, s |-> s]
    ELSE Only({ CapSum(settings, muNonzero, r.s, i + 1,
                       sum + CappedValue(settings, muNonzero, r.raw)) :
                r \in {RawSample(settings, s)} })

\* computeCapAdjustment(settings, muNonzero, rng): muNonzero / (sum / samples),
\* in thousandths
ComputeCapAdjustment(settings, muNonzero, s) ==
    Only({ (muNonzero * 1000 * CapSamples) \div CapSum(settings, muNonzero, s0, 0, 0).sum :
           s0 \in {s} })

(***************************************************************************)
(* Exact fractions <<n, d>> with d > 0, in lowest terms.  The calibration  *)
(* of the payout distributions and the statistics are computed by the code *)
(* in doubles; the model computes them exactly, so the rounding error of    *)
(* doubles is not modelled.  Every positive value of the model is at least  *)
(* 1/2^31, which is more than the tolerance 1e-10 of the code.              *)
(***************************************************************************)
RECURSIVE GCD(_, _)
GCD(a, b) == IF b = 0 THEN a ELSE GCD(b, a % b)

Abs(a) == IF a < 0 THEN 0 - a ELSE a

\* the fraction n / d, d # 0, in lowest terms
Frac(n, d) ==
    Only({ Only({ <<(IF q[2] < 0 THEN 0 - q[1] ELSE q[1]) \div g, Abs(q[2]) \div g>> :
                  g \in {GCD(Abs(q[1]), Abs(q[2]))} }) :
           q \in {<<n, d>>} })

Whole(n) == <<n, 1>>

RAdd(x, y) == Only({ Frac(a[1] * b[2] + b[1] * a[2], a[2] * b[2]) : a \in {x}, b \in {y} })

RSub(x, y) == Only({ Frac(a[1] * b[2] - b[1] * a[2], a[2] * b[2]) : a \in {x}, b \in {y} })

RMul(x, y) == Only({ Frac(a[1] * b[1], a[2] * b[2]) : a \in {x}, b \in {y} })

\* x / y for y # 0
RDiv(x, y) == Only({ Frac(a[1] * b[2], a[2] * b[1]) : a \in {x}, b \in {y} })

RLess(x, y) == Only({ a[1] * b[2] < b[1] * a[2] : a \in {x}, b \in {y} })

RLeq(x, y) == Only({ a[1] * b[2] <= b[1] * a[2] : a \in {x}, b \in {y} })

RMin(x, y) == IF RLess(x, y) THEN x ELSE y

\* values.reduce((sum, value) => sum + value, 0); the sum of fractions does
\* not depend on the order of the additions and is taken by halves
RECURSIVE RSum(_)
RSum(values) ==
    IF values = <<>> THEN Whole(0)
    ELSE IF Len(values) = 1 THEN values[1]
    ELSE Only({ RAdd(RSum(SubSeq(values, 1, half)),
                     RSum(SubSeq(values, half + 1, Len(values)))) :
                half \in {Len(values) \div 2} })

(***************************************************************************)
(* The payout distributions of src/sim/volatilityModel.ts.  An outcome is  *)
(* [m_base, p] in a template and [m, p] once scaled; a distribution is      *)
(* [multipliers, cdf, mean].                                                *)
(***************************************************************************)
\* buildBucketedOutcomes from the weights and multipliers of the buckets,
\* which the code computes with Math.exp, log and pow (lines 44-58) and the
\* model is given: lines 60-73
BuildBucketedOutcomes(zero_probability, weights, multipliers) ==
    Only({ IF RLeq(totalWeight, Whole(0))
           THEN <<[m_base |-> Whole(0), p |-> zero_probability]>>
           ELSE <<[m_base |-> Whole(0), p |-> zero_probability]>>
                \o [i \in 1..Len(weights) |->
                      [m_base |-> multipliers[i],
                       p |-> RMul(weights[i],
                                  RDiv(RSub(Whole(1), zero_probability), totalWeight))]] :
           totalWeight \in {RSum(weights)} })

\* buildBucketedTemplate(config)
BuildBucketedTemplate(config) ==
    [outcomes |-> BuildBucketedOutcomes(config.zero_probability, config.weights,
                                        config.multipliers),
     max_multiplier_allowed |-> config.max_multiplier]

\* normalizeOutcomes(outcomes)
NormalizeOutcomes(outcomes) ==
    Only({ IF total = Whole(0) THEN outcomes
           ELSE [i \in 1..Len(outcomes) |->
                   [outcomes[i] EXCEPT !.p = RDiv(@, total)]] :
           total \in {RSum([i \in 1..Len(outcomes) |-> outcomes[i].p])} })

\* the probabilities themselves in place of their running sums
BuildCdf_Density(probabilities) == probabilities

\* buildCdf(probabilities)
BuildCdf(probabilities) ==
    [i \in 1..Len(probabilities) |->
        IF i = Len(probabilities) THEN Whole(1)
        ELSE RSum(SubSeq(probabilities, 1, i))]

\* the sum of the multipliers without their probabilities
MeanMultiplier_Unweighted(outcomes) ==
    RSum([i \in 1..Len(outcomes) |-> outcomes[i].m])

\* meanMultiplier(outcomes)
MeanMultiplier(outcomes) ==
    RSum([i \in 1..Len(outcomes) |-> RMul(outcomes[i].p, outcomes[i].m)])

\* x > epsilon for the epsilon = 1e-10 of capAwareCalibration: the values of
\* the model are fractions of denominator below 2^31
AboveEpsilon(x) == RLess(Whole(0), x)

\* the pass that caps without setting anyCapped
RescalePass_NoFlag(calibrated, adjustable, factor, maxAllowed) ==
    [calibrated |->
        [i \in 1..Len(calibrated) |->
            IF ~adjustable[i] THEN calibrated[i]
            ELSE IF RLeq(maxAllowed, RMul(calibrated[i].m, factor))
                 THEN [calibrated[i] EXCEPT !.m = maxAllowed]
                 ELSE [calibrated[i] EXCEPT !.m = RMul(@, factor)]],
     adjustable |->
        [i \in 1..Len(calibrated) |->
            adjustable[i] /\ ~RLeq(maxAllowed, RMul(calibrated[i].m, factor))],
     anyCapped |-> FALSE]

\* one pass of the while loop of capAwareCalibration (lines 191-217), given
\* the sum over the adjustable outcomes: [calibrated, adjustable, anyCapped]
RescalePass(calibrated, adjustable, factor, maxAllowed) ==
    [calibrated |->
        [i \in 1..Len(calibrated) |->
            IF ~adjustable[i] THEN calibrated[i]
            ELSE IF RLeq(maxAllowed, RMul(calibrated[i].m, factor))
                 THEN [calibrated[i] EXCEPT !.m = maxAllowed]
                 ELSE [calibrated[i] EXCEPT !.m = RMul(@, factor)]],
     adjustable |->
        [i \in 1..Len(calibrated) |->
            adjustable[i] /\ ~RLeq(maxAllowed, RMul(calibrated[i].m, factor))],
     anyCapped |->
        \E i \in 1..Len(calibrated) :
            adjustable[i] /\ RLeq(maxAllowed, RMul(calibrated[i].m, factor))]

\* the iterations allowed to the loop of capAwareCalibration
MaxGuard == 20

\* the while loop of capAwareCalibration (lines 190-226): the outcomes it
\* leaves, the passes made and the way out of the loop ("test" the test of
\* the while, "nothing adjustable" the break of line 198, "none capped" the
\* break of line 223)
RECURSIVE RescaleLoop(_, _, _, _, _)
RescaleLoop(calibrated, adjustable, rtpMean, maxAllowed, guard) ==
    Only({ IF ~(AboveEpsilon(delta) /\ guard < MaxGuard)
           THEN [calibrated |-> calibrated, guard |-> guard, exit |-> "test"]
           ELSE Only({ IF RLeq(sumMid, Whole(0))
                       THEN [calibrated |-> calibrated, guard |-> guard,
                             exit |-> "nothing adjustable"]
                       ELSE Only({ IF pass.anyCapped
                                   THEN RescaleLoop(pass.calibrated, pass.adjustable,
                                                    rtpMean, maxAllowed, guard + 1)
                                   ELSE [calibrated |-> pass.calibrated,
                                         guard |-> guard + 1, exit |-> "none capped"] :
                                   pass \in {RescalePass(calibrated, adjustable,
                                                RAdd(Whole(1), RDiv(delta, sumMid)),
                                                maxAllowed)} }) :
                       sumMid \in {RSum([i \in 1..Len(calibrated) |->
                                          IF adjustable[i]
                                          THEN RMul(calibrated[i].p, calibrated[i].m)
                                          ELSE Whole(0)])} }) :
           delta \in {RSub(rtpMean, MeanMultiplier(calibrated))} })

\* capAwareCalibration(outcomes, rtpMean, maxAllowed) with the passes of its
\* loop and the way out of it ("no loop" the return of line 183)
CapAwareRun(outcomes, rtpMean, maxAllowed) ==
    Only({ IF RLeq(RSub(rtpMean, MeanMultiplier(clamped)), Whole(0))
           THEN [calibrated |-> clamped, guard |-> 0, exit |-> "no loop"]
           ELSE RescaleLoop(clamped,
                            [i \in 1..Len(clamped) |->
                                RLess(Whole(0), clamped[i].m)
                                /\ AboveEpsilon(RSub(maxAllowed, clamped[i].m))],
                            rtpMean, maxAllowed, 0) :
           clamped \in {[i \in 1..Len(outcomes) |->
                           [outcomes[i] EXCEPT !.m = RMin(@, maxAllowed)]]} })

\* capAwareCalibration(outcomes, rtpMean, maxAllowed)
CapAwareCalibration(outcomes, rtpMean, maxAllowed) ==
    CapAwareRun(outcomes, rtpMean, maxAllowed).calibrated

\* Math.max(...values) of a non-empty list
RECURSIVE RMaxOf(_)
RMaxOf(values) ==
    IF Len(values) = 1 THEN values[1]
    ELSE Only({ IF RLess(rest, values[Len(values)]) THEN values[Len(values)] ELSE rest :
                rest \in {RMaxOf(SubSeq(values, 1, Len(values) - 1))} })

\* lines 132-141 with the scaling replaced by one that leaves the largest
\* multiplier above the cap untouched
Calibrate_NoCap(template, normalized, rtpMean, muBase) ==
    [i \in 1..Len(normalized) |->
        [p |-> normalized[i].p,
         m |-> RMul(normalized[i].m_base, RDiv(rtpMean, muBase))]]

\* lines 132-141 of buildCalibratedDistribution: the outcomes scaled by
\* k = rtpMean / muBase, rebalanced when the largest exceeds the cap
Calibrate(template, normalized, rtpMean, muBase) ==
    Only({ IF RLess(template.max_multiplier_allowed,
                    RMaxOf([i \in 1..Len(scaled) |-> scaled[i].m]))
           THEN CapAwareCalibration(scaled, rtpMean, template.max_multiplier_allowed)
           ELSE scaled :
           scaled \in {[i \in 1..Len(normalized) |->
                          [p |-> normalized[i].p,
                           m |-> RMul(normalized[i].m_base, RDiv(rtpMean, muBase))]]} })

\* the call of capAwareCalibration at line 140 for the template and the
\* target: its passes and its way out of the loop; "not called" when no
\* scaled multiplier exceeds the cap, or when muBase <= 0
RebalanceOf(template, rtpMean) ==
    Only({ Only({ IF RLeq(muBase, Whole(0)) THEN [guard |-> 0, exit |-> "not called"]
                  ELSE Only({ IF RLess(template.max_multiplier_allowed,
                                       RMaxOf([i \in 1..Len(scaled) |-> scaled[i].m]))
                              THEN Only({ [guard |-> made.guard, exit |-> made.exit] :
                                          made \in {CapAwareRun(scaled, rtpMean,
                                                       template.max_multiplier_allowed)} })
                              ELSE [guard |-> 0, exit |-> "not called"] :
                              scaled \in {[i \in 1..Len(normalized) |->
                                  [p |-> normalized[i].p,
                                   m |-> RMul(normalized[i].m_base,
                                              RDiv(rtpMean, muBase))]]} }) :
                  muBase \in {RSum([i \in 1..Len(normalized) |->
                                     RMul(normalized[i].p, normalized[i].m_base)])} }) :
           normalized \in {NormalizeOutcomes(template.outcomes)} })

\* buildCalibratedDistribution(volatility, rtpMean), template the entry of
\* VOLATILITY_TEMPLATES for the volatility
BuildCalibratedDistribution(template, rtpMean) ==
    Only({ Only({ IF RLeq(muBase, Whole(0))
                  THEN [multipliers |-> [i \in 1..Len(normalized) |-> Whole(0)],
                        cdf |-> BuildCdf([i \in 1..Len(normalized) |-> normalized[i].p]),
                        mean |-> Whole(0)]
                  ELSE Only({ [multipliers |-> [i \in 1..Len(calibrated) |-> calibrated[i].m],
                               cdf |-> BuildCdf([i \in 1..Len(calibrated) |-> calibrated[i].p]),
                               mean |-> MeanMultiplier(calibrated)] :
                              calibrated \in {Calibrate(template, normalized, rtpMean, muBase)} }) :
                  muBase \in {RSum([i \in 1..Len(normalized) |->
                                     RMul(normalized[i].p, normalized[i].m_base)])} }) :
           normalized \in {NormalizeOutcomes(template.outcomes)} })

\* the scan with u < cdf[i] in place of u <= cdf[i]
RECURSIVE ScanCdf_Strict(_, _, _)
ScanCdf_Strict(distribution, u, i) ==
    IF i > Len(distribution.cdf)
    THEN (IF distribution.multipliers = <<>> THEN Whole(0)
          ELSE distribution.multipliers[Len(distribution.multipliers)])
    ELSE IF RLess(u, distribution.cdf[i]) THEN distribution.multipliers[i]
    ELSE ScanCdf_Strict(distribution, u, i + 1)

\* the for loop of sampleMultiplier from index i on (lines 154-159)
RECURSIVE ScanCdf(_, _, _)
ScanCdf(distribution, u, i) ==
    IF i > Len(distribution.cdf)
    THEN (IF distribution.multipliers = <<>> THEN Whole(0)
          ELSE distribution.multipliers[Len(distribution.multipliers)])
    ELSE IF RLeq(u, distribution.cdf[i]) THEN distribution.multipliers[i]
    ELSE ScanCdf(distribution, u, i + 1)

\* the sampler scanning from the second outcome on
SampleMultiplier_SkipFirst(distribution, rng) ==
    [value |-> ScanCdf(distribution, Head(rng), 2), rng |-> Tail(rng)]

\* sampleMultiplier(distribution, rng) for a stream given as the list of the
\* values it will return: [value, rng]
SampleMultiplier(distribution, rng) ==
    [value |-> ScanCdf(distribution, Head(rng), 1), rng |-> Tail(rng)]

(***************************************************************************)
(* The worker.  Its state is the module-level flag `cancelled`, the local  *)
(* state of every call of runSimulation (run[r], r the number of the       *)
(* simulate message that started it) and the messages it has posted.       *)
(* JavaScript runs one task at a time: cpu is the run whose code is        *)
(* executing, or 0 when the worker is between tasks.  A message or a timer *)
(* is handled only when cpu = 0; a task runs until the run awaits the      *)
(* timer of yieldToEventLoop or its promise settles and the then/catch     *)
(* callback has posted the terminal message.                               *)
(***************************************************************************)
VARIABLES
    cancelled,   \* let cancelled
    cpu,         \* the run that is executing, 0 when none
    run,         \* run id -> the local state of that runSimulation call
    outbox,      \* the messages posted, oldest first
    env,         \* what the environment may still send, and the inputs it uses
    cancelSent,  \* the runs that were in flight when a cancel was handled
    clock,       \* the last reading of the wall clock
    uuids,       \* the number of identifiers crypto.randomUUID() has returned
    calc         \* a function of the library under evaluation: its arguments
                 \* and, step by step, its values

vars == <<cancelled, cpu, run, outbox, env, cancelSent, clock, uuids, calc>>

\* the state of the worker
worker == <<cancelled, cpu, run, outbox, env, cancelSent, clock, uuids>>

\* no function under evaluation
IdleCalc == [step |-> "idle"]

RunIds == 1..MaxRequests

Max(a, b) == IF a > b THEN a ELSE b

Min(a, b) == IF a < b THEN a ELSE b

\* Math.round(x * 100) for x >= 0 in ticks
RoundCents(x) == (x + (Cent \div 2)) \div Cent

BetCents(inputs) == RoundCents(inputs.bet_size)

TargetCents(inputs) == RoundCents(inputs.coin_in_target)

\* the top-up amount as entered, without the minimum of one cent
DepositAmount_NoClamp(inputs) == inputs.deposit_amount

\* Math.max(0.01, inputs.deposit_amount), ticks
DepositAmount(inputs) == Max(MinDepositCents * Cent, inputs.deposit_amount)

\* rtp / (1 - settings.p0), thousandths; rtp_percent is kept in tenths
MuNonzero(inputs) ==
    (inputs.rtp_percent * 1000) \div (1000 - VOLATILITY_SETTINGS[inputs.volatility].p0)

\* Math.max(1, Math.floor(inputs.runs / 100))
ProgressInterval(runs) == Max(1, runs \div 100)

\* the session loop written with <= : it spins once more at the target
LoopCond_Inclusive(coinInCents, targetCents) == coinInCents <= targetCents

\* the session loop stopping one cent early
LoopCond_Early(coinInCents, targetCents) == coinInCents + 1 < targetCents

\* the test of the session loop
LoopCond(coinInCents, targetCents) == coinInCents < targetCents

\* the wager without the clamp to the remaining distance
SpinBetCents_NoClamp(betCents, remainingCents) == betCents

\* Math.min(betCents, remainingCents)
SpinBetCents(betCents, remainingCents) == Min(betCents, remainingCents)

\* the test of the top-up loop: balance + 1e-9 < bet
NeedsTopUp(balance, bet) == balance + Eps < bet

\* the time taken off the wall clock instead of the spin count
TimeEstimate_WallClock(spins, inputs) == clock

\* spins / Math.max(0.01, inputs.spins_per_sec) / 60, in thousandths of a
\* minute; spins_per_sec is kept in hundredths
TimeEstimate(spins, inputs) ==
    (spins * 100000) \div (Max(MinSpinRate, inputs.spins_per_sec) * 60)

\* App.spinsPerRun (lines 813-817): Math.ceil(targetCents / Math.max(1, betCents))
SpinsPerRun(inputs) ==
    (TargetCents(inputs) + Max(1, BetCents(inputs)) - 1) \div Max(1, BetCents(inputs))

\* Number(x.toFixed(6)): x rounded to a millionth of a dollar (2000 ticks)
ToFixed6(x) == ((x + (Cent \div 20000)) \div (Cent \div 10000)) * (Cent \div 10000)

\* buildCoinInGrid(points, maxCoinIn)
BuildCoinInGrid(points, maxCoinIn) ==
    IF points <= 1 THEN <<0, maxCoinIn>>
    ELSE [i \in 1..points |-> ToFixed6(((i - 1) * maxCoinIn) \div (points - 1))]

\* the while loop of downsampleTrajectory: index (counted from 0) moves on
\* while the next recorded coin-in is below x
RECURSIVE AdvanceIndex(_, _, _)
AdvanceIndex(coinIn, index, x) ==
    IF index < Len(coinIn) - 1 /\ coinIn[index + 2] < x
    THEN AdvanceIndex(coinIn, index + 1, x)
    ELSE index

\* the value of the earlier sample instead of the interpolation
Interpolate_Step(x0, x1, y0, y1, x) == IF x1 = x0 THEN y1 ELSE y0

\* y0 + t * (y1 - y0) with t = (x - x0) / (x1 - x0); t is kept in
\* thousandths, the abscissae in thousandths of a cent
Interpolate(x0, x1, y0, y1, x) ==
    IF x1 = x0 THEN y1
    ELSE y0 + ((((x - x0) \div (Cent \div 1000)) * 1000)
                 \div ((x1 - x0) \div (Cent \div 1000)))
              * ((y1 - y0) \div 1000)

\* the for loop of downsampleTrajectory from grid point i on
RECURSIVE DownsampleFrom(_, _, _, _, _)
DownsampleFrom(coinIn, net, grid, i, index) ==
    IF i > Len(grid) THEN <<>>
    ELSE LET x   == grid[i]
             idx == AdvanceIndex(coinIn, index, x)
             y   == IF x <= coinIn[1] THEN net[1]
                    ELSE IF idx >= Len(coinIn) - 1 THEN net[Len(net)]
                    ELSE Interpolate(coinIn[idx + 1], coinIn[idx + 2],
                                     net[idx + 1], net[idx + 2], x)
         IN  <<y>> \o DownsampleFrom(coinIn, net, grid, i + 1, idx)

\* the values of index after the while loop, for the grid points from i on
RECURSIVE CursorFrom(_, _, _, _)
CursorFrom(coinIn, grid, i, index) ==
    IF i > Len(grid) THEN <<>>
    ELSE Only({ <<idx>> \o CursorFrom(coinIn, grid, i + 1, idx) :
                idx \in {AdvanceIndex(coinIn, index, grid[i])} })

\* downsampleTrajectory(coinIn, net, grid)
DownsampleTrajectory(coinIn, net, grid) == DownsampleFrom(coinIn, net, grid, 1, 0)

\* the default step of sampleRunIndices
SampleStep == 100

\* the elements of a set of numbers in ascending order
RECURSIVE SortedSeq(_)
SortedSeq(S) ==
    IF S = {} THEN <<>>
    ELSE LET m == CHOOSE v \in S : \A w \in S : v <= w
         IN  <<m>> \o SortedSeq(S \ {m})

\* the for loop of sampleRunIndices: i, i + step, ... up to totalRuns are
\* added to the set
RECURSIVE AddSteps(_, _, _, _)
AddSteps(indices, i, step, totalRuns) ==
    IF i <= totalRuns THEN AddSteps(indices \cup {i}, i + step, step, totalRuns)
    ELSE indices

\* sampleRunIndices without the last session
SampleRunIndicesBy_NoLast(totalRuns, step) ==
    SortedSeq(AddSteps({Min(1, totalRuns)}, step, step, totalRuns))

\* sampleRunIndices(totalRuns, step)
SampleRunIndicesBy(totalRuns, step) ==
    SortedSeq(AddSteps({Min(1, totalRuns)}, step, step, totalRuns) \cup {totalRuns})

\* sampleRunIndices(totalRuns), the step being the default
SampleRunIndices(totalRuns) == SampleRunIndicesBy(totalRuns, SampleStep)

\* sampleIndices.map((idx) => downsampledRuns[idx - 1]); an index past the
\* end of the list reads undefined
SampleTrajectories(indices, downsampledRuns) ==
    [j \in 1..Len(indices) |->
        IF indices[j] \in 1..Len(downsampledRuns)
        THEN downsampledRuns[indices[j]] ELSE <<"undefined">>]

\* the state of a run that has not been started
IdleRun ==
    [pc |-> "idle", inputs |-> <<>>, rng |-> <<>>, capAdjustment |-> 0,
     runs |-> <<>>, bestRunIndex |-> 1, worstRunIndex |-> 1,
     bestNet |-> <<>>, worstNet |-> <<>>, runIndex |-> 1,
     coinInHistory |-> <<>>, netHistory |-> <<>>,
     coinInCents |-> 0, totalPayout |-> 0, net |-> 0, peakNet |-> 0,
     maxDrawdown |-> 0, spins |-> 0, balance |-> 0, totalCashIn |-> 0,
     spinBetCents |-> 0, payout |-> 0, result |-> <<>>,
     downsampledRuns |-> <<>>, bestTrajectory |-> <<>>, worstTrajectory |-> <<>>,
     lap |-> 0, capRng |-> <<>>, error |-> ""]

\* a run is in flight from its simulate message to its terminal message
InFlight(r) == run[r].pc \notin {"idle", "finished"}

Post(msg) == outbox' = Append(outbox, msg)

NoPayload == [none |-> TRUE]

(***************************************************************************)
(* self.onmessage                                                          *)
(***************************************************************************)
\* a simulate message: the flag is reset and runSimulation is called
OnMessageSimulate(r, payload) ==
    /\ cpu = 0
    /\ env.requests > 0
    /\ run[r].pc = "idle"
    /\ \A q \in RunIds : q < r => run[q].pc # "idle"
    /\ env' = [env EXCEPT !.requests = @ - 1]
    /\ IF payload = NoPayload
       THEN UNCHANGED <<cancelled, cpu, run>>
       ELSE /\ cancelled' = FALSE
            /\ run' = [run EXCEPT ![r] = [IdleRun EXCEPT !.pc = "init",
                                                         !.inputs = payload]]
            /\ cpu' = r
    /\ UNCHANGED <<outbox, cancelSent, clock, uuids, calc>>

\* a cancel message
OnMessageCancel ==
    /\ cpu = 0
    /\ env.cancels > 0
    /\ env' = [env EXCEPT !.cancels = @ - 1]
    /\ cancelled' = TRUE
    /\ cancelSent' = cancelSent \cup {r \in RunIds : InFlight(r)}
    /\ UNCHANGED <<cpu, run, outbox, clock, uuids, calc>>

(***************************************************************************)
(* runSimulation                                                           *)
(***************************************************************************)
\* the set-up with one stream for both the pre-pass and the spins
RunInit_SharedStream(r) ==
    /\ cpu = r
    /\ run[r].pc = "init"
    /\ LET inputs == run[r].inputs
       IN  IF inputs.volatility \notin DOMAIN VOLATILITY_SETTINGS
           THEN run' = [run EXCEPT ![r].pc = "rejected",
                                   ![r].error = "settings is undefined"]
           ELSE \E pre \in {CapSum(VOLATILITY_SETTINGS[inputs.volatility],
                                    MuNonzero(inputs),
                                    CreateRng(CapSeed(inputs.seed)), 0, 0)} :
                  run' = [run EXCEPT
                    ![r].pc = "for",
                    ![r].rng = IF CreateRng(inputs.seed).seeded THEN pre.s
                               ELSE CreateRng(inputs.seed),
                    ![r].capRng = pre.s,
                    ![r].capAdjustment =
                        (MuNonzero(inputs) * 1000 * CapSamples) \div pre.sum]
    /\ UNCHANGED <<cancelled, cpu, outbox, env, cancelSent, clock, uuids, calc>>

\* lines 136-163: the settings lookup throws for an unknown volatility (the
\* read of settings.p0); otherwise the streams are made and the pre-pass runs
RunInit(r) ==
    /\ cpu = r
    /\ run[r].pc = "init"
    /\ LET inputs == run[r].inputs
       IN  IF inputs.volatility \notin DOMAIN VOLATILITY_SETTINGS
           THEN run' = [run EXCEPT ![r].pc = "rejected",
                                   ![r].error = "settings is undefined"]
           ELSE run' = [run EXCEPT
                    ![r].pc = "for",
                    ![r].rng = CreateRng(inputs.seed),
                    ![r].capRng =
                        CapSum(VOLATILITY_SETTINGS[inputs.volatility],
                               MuNonzero(inputs),
                               CreateRng(CapSeed(inputs.seed)), 0, 0).s,
                    ![r].capAdjustment =
                        ComputeCapAdjustment(VOLATILITY_SETTINGS[inputs.volatility],
                                             MuNonzero(inputs),
                                             CreateRng(CapSeed(inputs.seed)))]
    /\ UNCHANGED <<cancelled, cpu, outbox, env, cancelSent, clock, uuids, calc>>

\* the head of the loop over the sessions with the net of the session before
\* left in place
ForHead_KeepsNet(r) ==
    /\ cpu = r
    /\ run[r].pc = "for"
    /\ IF run[r].runIndex > run[r].inputs.runs \/ cancelled
       THEN run' = [run EXCEPT ![r].pc = "assemble"]
       ELSE run' = [run EXCEPT
                ![r].pc = "while",
                ![r].coinInHistory = <<0>>,
                ![r].netHistory = <<0>>,
                ![r].coinInCents = 0,
                ![r].totalPayout = 0,
                ![r].peakNet = 0,
                ![r].maxDrawdown = 0,
                ![r].spins = 0,
                ![r].balance = DepositAmount(run[r].inputs),
                ![r].totalCashIn = DepositAmount(run[r].inputs)]
    /\ UNCHANGED <<cancelled, cpu, outbox, env, cancelSent, clock, uuids, calc>>

\* lines 165-180: the head of the run loop and the start of a session
ForHead(r) ==
    /\ cpu = r
    /\ run[r].pc = "for"
    /\ IF run[r].runIndex > run[r].inputs.runs \/ cancelled
       THEN run' = [run EXCEPT ![r].pc = "assemble"]
       ELSE run' = [run EXCEPT
                ![r].pc = "while",
                ![r].coinInHistory = <<0>>,
                ![r].netHistory = <<0>>,
                ![r].coinInCents = 0,
                ![r].totalPayout = 0,
                ![r].net = 0,
                ![r].peakNet = 0,
                ![r].maxDrawdown = 0,
                ![r].spins = 0,
                ![r].balance = DepositAmount(run[r].inputs),
                ![r].totalCashIn = DepositAmount(run[r].inputs)]
    /\ UNCHANGED <<cancelled, cpu, outbox, env, cancelSent, clock, uuids, calc>>

\* lines 182-185: the head of the session loop
WhileHead(r) ==
    /\ cpu = r
    /\ run[r].pc = "while"
    /\ run[r].spins < MaxSpins
    /\ IF LoopCond(run[r].coinInCents, TargetCents(run[r].inputs))
       THEN run' = [run EXCEPT
                ![r].pc = "topup",
                ![r].spinBetCents =
                    SpinBetCents(BetCents(run[r].inputs),
                                 TargetCents(run[r].inputs) - run[r].coinInCents)]
       ELSE run' = [run EXCEPT ![r].pc = "record"]
    /\ UNCHANGED <<cancelled, cpu, outbox, env, cancelSent, clock, uuids, calc>>

\* lines 182-211 after MaxSpins spins, when the loop test holds and the wager
\* is 0 cents: an iteration debits and credits nothing and leaves coinInCents,
\* and with it the loop test, as they are.  The model keeps of these
\* iterations only their parity.
SpinOn(r) ==
    /\ cpu = r
    /\ run[r].pc = "while"
    /\ run[r].spins >= MaxSpins
    /\ LoopCond(run[r].coinInCents, TargetCents(run[r].inputs))
    /\ SpinBetCents(BetCents(run[r].inputs),
                    TargetCents(run[r].inputs) - run[r].coinInCents) = 0
    /\ run' = [run EXCEPT ![r].lap = 1 - @]
    /\ UNCHANGED <<cancelled, cpu, outbox, env, cancelSent, clock, uuids, calc>>

\* lines 187-190: one test of the top-up loop, and its body when it holds
TopUp(r) ==
    /\ cpu = r
    /\ run[r].pc = "topup"
    /\ IF NeedsTopUp(run[r].balance, run[r].spinBetCents * Cent)
       THEN run' = [run EXCEPT
                ![r].balance = @ + DepositAmount(run[r].inputs),
                ![r].totalCashIn = @ + DepositAmount(run[r].inputs)]
       ELSE run' = [run EXCEPT ![r].pc = "debit"]
    /\ UNCHANGED <<cancelled, cpu, outbox, env, cancelSent, clock, uuids, calc>>

\* line 192
Debit(r) ==
    /\ cpu = r
    /\ run[r].pc = "debit"
    /\ run' = [run EXCEPT ![r].pc = "sample",
                          ![r].balance = @ - run[r].spinBetCents * Cent]
    /\ UNCHANGED <<cancelled, cpu, outbox, env, cancelSent, clock, uuids, calc>>

\* values Math.random() may return, as 32-bit numerators: 0, 1/8, 1/2, 7/8
RandomWords == {<<0, 0>>, <<8192, 0>>, <<32768, 0>>, <<57344, 0>>}

\* what the environment supplies to one spin of a stream
Oracles(s) == IF s.seeded THEN {<<>>} ELSE [1..MaxDraws -> RandomWords]

\* the spin drawing from Math.random() whatever the seed
Sample_Unseeded(r) ==
    /\ cpu = r
    /\ run[r].pc = "sample"
    /\ \E oracle \in [1..MaxDraws -> RandomWords] :
         \E res \in {SamplePayout(run[r].spinBetCents,
                                  VOLATILITY_SETTINGS[run[r].inputs.volatility],
                                  MuNonzero(run[r].inputs),
                                  run[r].capAdjustment,
                                  [seeded |-> FALSE, t |-> run[r].rng.t,
                                   oracle |-> oracle])} :
           /\ res.ok
           /\ run' = [run EXCEPT ![r].pc = "credit",
                                 ![r].payout = res.payout,
                                 ![r].rng = [run[r].rng EXCEPT !.oracle = <<>>]]
    /\ UNCHANGED <<cancelled, cpu, outbox, env, cancelSent, clock, uuids, calc>>

\* line 193
Sample(r) ==
    /\ cpu = r
    /\ run[r].pc = "sample"
    /\ \E oracle \in Oracles(run[r].rng) :
         \E res \in {SamplePayout(run[r].spinBetCents,
                                  VOLATILITY_SETTINGS[run[r].inputs.volatility],
                                  MuNonzero(run[r].inputs),
                                  run[r].capAdjustment,
                                  [run[r].rng EXCEPT !.oracle = oracle])} :
           /\ res.ok
           /\ run' = [run EXCEPT ![r].pc = "credit",
                                 ![r].payout = res.payout,
                                 ![r].rng = [res.s EXCEPT !.oracle = <<>>]]
    /\ UNCHANGED <<cancelled, cpu, outbox, env, cancelSent, clock, uuids, calc>>

\* the spin credited with the peak left where it is
Credit_NoPeak(r) ==
    /\ cpu = r
    /\ run[r].pc = "credit"
    /\ LET bet      == run[r].spinBetCents * Cent
           net      == run[r].net + (run[r].payout - bet)
           peakNet  == run[r].peakNet
           drawdown == peakNet - net
       IN  run' = [run EXCEPT
                ![r].pc = "while",
                ![r].coinInCents = @ + run[r].spinBetCents,
                ![r].totalPayout = @ + run[r].payout,
                ![r].net = net,
                ![r].balance = @ + run[r].payout,
                ![r].peakNet = peakNet,
                ![r].maxDrawdown = IF drawdown > @ THEN drawdown ELSE @,
                ![r].spins = @ + 1,
                ![r].coinInHistory = Append(@, (run[r].coinInCents + run[r].spinBetCents) * Cent),
                ![r].netHistory = Append(@, net)]
    /\ UNCHANGED <<cancelled, cpu, outbox, env, cancelSent, clock, uuids, calc>>

\* lines 195-210
Credit(r) ==
    /\ cpu = r
    /\ run[r].pc = "credit"
    /\ LET bet      == run[r].spinBetCents * Cent
           net      == run[r].net + (run[r].payout - bet)
           peakNet  == IF net > run[r].peakNet THEN net ELSE run[r].peakNet
           drawdown == peakNet - net
       IN  run' = [run EXCEPT
                ![r].pc = "while",
                ![r].coinInCents = @ + run[r].spinBetCents,
                ![r].totalPayout = @ + run[r].payout,
                ![r].net = net,
                ![r].balance = @ + run[r].payout,
                ![r].peakNet = peakNet,
                ![r].maxDrawdown = IF drawdown > @ THEN drawdown ELSE @,
                ![r].spins = @ + 1,
                ![r].coinInHistory = Append(@, (run[r].coinInCents + run[r].spinBetCents) * Cent),
                ![r].netHistory = Append(@, net)]
    /\ UNCHANGED <<cancelled, cpu, outbox, env, cancelSent, clock, uuids, calc>>

\* the RunMetrics of the session that has just ended (lines 228-238)
RunMetricsOf(st) ==
    [run_index             |-> st.runIndex,
     spins                 |-> st.spins,
     total_coin_in         |-> st.coinInCents * Cent,
     total_payout          |-> st.totalPayout,
     final_net             |-> st.net,
     max_drawdown          |-> st.maxDrawdown,
     time_estimate_minutes |-> TimeEstimate(st.spins, st.inputs),
     total_cash_in         |-> st.totalCashIn,
     ending_balance        |-> st.balance]

\* the cadence without the report after the last session
ProgressDue_NoFinal(runIndex, runs) == runIndex % ProgressInterval(runs) = 0

\* runIndex % progressInterval === 0 || runIndex === inputs.runs
ProgressDue(runIndex, runs) ==
    runIndex % ProgressInterval(runs) = 0 \/ runIndex = runs

\* the session recorded with the best and the worst session replaced on
\* ties as well
Record_LastOccurrence(r) ==
    /\ cpu = r
    /\ run[r].pc = "record"
    /\ LET st     == run[r]
           better == st.bestNet = <<>> \/ st.net >= st.bestNet[1]
           worse  == st.worstNet = <<>> \/ st.net <= st.worstNet[1]
           due    == ProgressDue(st.runIndex, st.inputs.runs)
           downsampled ==
               DownsampleTrajectory(st.coinInHistory, st.netHistory,
                   BuildCoinInGrid(st.inputs.traj_points, st.inputs.coin_in_target))
       IN  /\ run' = [run EXCEPT
                ![r].runs = Append(@, RunMetricsOf(st)),
                ![r].downsampledRuns = Append(@, downsampled),
                ![r].bestTrajectory = IF better THEN downsampled ELSE @,
                ![r].worstTrajectory = IF worse THEN downsampled ELSE @,
                ![r].bestNet = IF better THEN <<st.net>> ELSE @,
                ![r].bestRunIndex = IF better THEN st.runIndex ELSE @,
                ![r].worstNet = IF worse THEN <<st.net>> ELSE @,
                ![r].worstRunIndex = IF worse THEN st.runIndex ELSE @,
                ![r].runIndex = IF due THEN @ ELSE @ + 1,
                ![r].pc = IF due THEN "yielded" ELSE "for"]
           /\ IF due
              THEN /\ Post([type |-> "progress", rid |-> r,
                            payload |-> [completed |-> st.runIndex,
                                         total |-> st.inputs.runs]])
                   /\ cpu' = 0
              ELSE UNCHANGED <<outbox, cpu>>
    /\ UNCHANGED <<cancelled, env, cancelSent, clock, uuids, calc>>

\* lines 213-249: the session is recorded; at the cadence a progress message
\* is posted and the run awaits the timer, otherwise the loop goes on
Record(r) ==
    /\ cpu = r
    /\ run[r].pc = "record"
    /\ LET st     == run[r]
           better == st.bestNet = <<>> \/ st.net > st.bestNet[1]
           worse  == st.worstNet = <<>> \/ st.net < st.worstNet[1]
           due    == ProgressDue(st.runIndex, st.inputs.runs)
           downsampled ==
               DownsampleTrajectory(st.coinInHistory, st.netHistory,
                   BuildCoinInGrid(st.inputs.traj_points, st.inputs.coin_in_target))
       IN  /\ run' = [run EXCEPT
                ![r].runs = Append(@, RunMetricsOf(st)),
                ![r].downsampledRuns = Append(@, downsampled),
                ![r].bestTrajectory = IF better THEN downsampled ELSE @,
                ![r].worstTrajectory = IF worse THEN downsampled ELSE @,
                ![r].bestNet = IF better THEN <<st.net>> ELSE @,
                ![r].bestRunIndex = IF better THEN st.runIndex ELSE @,
                ![r].worstNet = IF worse THEN <<st.net>> ELSE @,
                ![r].worstRunIndex = IF worse THEN st.runIndex ELSE @,
                ![r].runIndex = IF due THEN @ ELSE @ + 1,
                ![r].pc = IF due THEN "yielded" ELSE "for"]
           /\ IF due
              THEN /\ Post([type |-> "progress", rid |-> r,
                            payload |-> [completed |-> st.runIndex,
                                         total |-> st.inputs.runs]])
                   /\ cpu' = 0
              ELSE UNCHANGED <<outbox, cpu>>
    /\ UNCHANGED <<cancelled, env, cancelSent, clock, uuids, calc>>

\* the timer of yieldToEventLoop fires: the run resumes after the await and
\* the for statement increments runIndex
TimerFire(r) ==
    /\ cpu = 0
    /\ run[r].pc = "yielded"
    /\ cpu' = r
    /\ run' = [run EXCEPT ![r].pc = "for", ![r].runIndex = @ + 1]
    /\ UNCHANGED <<cancelled, outbox, env, cancelSent, clock, uuids, calc>>

\* lines 252-283: the result is assembled; meta.id is a random UUID, taken
\* as an identifier never returned before, and meta.created_at the wall
\* clock, which never runs backwards.  Of the aggregate the selected runs
\* are kept, of the trajectories all but the median one; the fields left
\* out are functions of the lists kept here.  crypto.randomUUID exists only
\* in a secure context: where the worker has none, the call at line 267
\* throws a TypeError and the promise is rejected.  Which worker this is, is
\* settled the first time a result is assembled.
Assemble(r) ==
    /\ cpu = r
    /\ run[r].pc = "assemble"
    /\ \E defined \in (IF env.randomUUID = "unknown" THEN BOOLEAN
                        ELSE {env.randomUUID = "defined"}) :
         /\ env' = [env EXCEPT !.randomUUID = IF defined THEN "defined" ELSE "undefined"]
         /\ IF defined
            THEN /\ uuids' = uuids + 1
                 /\ \E now \in clock..Min(clock + 1, MaxClock) :
                      /\ clock' = now
                      /\ run' = [run EXCEPT
                           ![r].pc = "resolved",
                           ![r].result =
                             [schema_version |-> "1.0",
                              model_version  |-> "slot-mixture-v1",
                              meta      |-> [id |-> uuids + 1, name |-> "",
                                             created_at |-> now,
                                             app_version |-> "0.1.0"],
                              inputs    |-> run[r].inputs,
                              aggregate |-> [selected_runs |->
                                  [best_run_index  |-> run[r].bestRunIndex,
                                   worst_run_index |-> run[r].worstRunIndex,
                                   sample_run_indices |->
                                       SampleRunIndices(run[r].inputs.runs)]],
                              runs      |-> run[r].runs,
                              trajectories |->
                                [x_coin_in |-> BuildCoinInGrid(run[r].inputs.traj_points,
                                                               run[r].inputs.coin_in_target),
                                 samples |-> SampleTrajectories(
                                                 SampleRunIndices(run[r].inputs.runs),
                                                 run[r].downsampledRuns),
                                 sample_run_indices |-> SampleRunIndices(run[r].inputs.runs),
                                 best  |-> run[r].bestTrajectory,
                                 worst |-> run[r].worstTrajectory]]]
            ELSE /\ run' = [run EXCEPT
                           ![r].pc = "rejected",
                           ![r].error = "crypto.randomUUID is not a function"]
                 /\ UNCHANGED <<clock, uuids>>
    /\ UNCHANGED <<cancelled, cpu, outbox, cancelSent, calc>>

\* lines 122-128: the callback of then, run when the promise is fulfilled
ThenHandler(r) ==
    /\ cpu = r
    /\ run[r].pc = "resolved"
    /\ IF cancelled
       THEN Post([type |-> "cancelled", rid |-> r, payload |-> <<>>])
       ELSE Post([type |-> "done", rid |-> r,
                  payload |-> [result |-> run[r].result]])
    /\ run' = [run EXCEPT ![r].pc = "finished"]
    /\ cpu' = 0
    /\ UNCHANGED <<cancelled, env, cancelSent, clock, uuids, calc>>

\* the callback of catch answering 'cancelled' when the flag is set
CatchHandler_ChecksFlag(r) ==
    /\ cpu = r
    /\ run[r].pc = "rejected"
    /\ IF cancelled
       THEN Post([type |-> "cancelled", rid |-> r, payload |-> <<>>])
       ELSE Post([type |-> "error", rid |-> r,
                  payload |-> [message |-> run[r].error]])
    /\ run' = [run EXCEPT ![r].pc = "finished"]
    /\ cpu' = 0
    /\ UNCHANGED <<cancelled, env, cancelSent, clock, uuids, calc>>

\* lines 129-131: the callback of catch, run when the promise is rejected
CatchHandler(r) ==
    /\ cpu = r
    /\ run[r].pc = "rejected"
    /\ Post([type |-> "error", rid |-> r,
             payload |-> [message |-> run[r].error]])
    /\ run' = [run EXCEPT ![r].pc = "finished"]
    /\ cpu' = 0
    /\ UNCHANGED <<cancelled, env, cancelSent, clock, uuids, calc>>

(***************************************************************************)
(* The environment: the inputs of the simulate messages it sends.  Money   *)
(* is in ticks (Cent ticks to the cent), rtp_percent in tenths,            *)
(* spins_per_sec in hundredths.                                            *)
(***************************************************************************)
NullSeed == [isNull |-> TRUE, chars |-> <<>>]

SeedB == [isNull |-> FALSE, chars |-> <<98>>]

SeedAB == [isNull |-> FALSE, chars |-> <<97, 98>>]

Inputs(volatility, bet, deposit, target, runs, seed) ==
    [rtp_percent |-> 880, volatility |-> volatility, bet_size |-> bet,
     deposit_amount |-> deposit, coin_in_target |-> target, runs |-> runs,
     seed |-> seed, spins_per_sec |-> 10, traj_points |-> 2]

\* one request: unseeded sessions over bets, targets and top-ups (also a
\* target of 3.4 cents and a top-up one tick short of the bet), seeded runs
\* of several sessions, and the degenerate requests (a bet that rounds to 0
\* cents, a target of 0, an unknown volatility)
SessionInputs ==
    { Inputs(v, b, d, t, 1, NullSeed) :
        v \in {"LOW", "MEDIUM"}, b \in {Cent, 2 * Cent},
        d \in {Cent \div 10, Cent, 2 * Cent - 1, 5 * Cent},
        t \in {Cent, 3 * Cent, 3 * Cent + (2 * Cent) \div 5} }
    \cup { Inputs("LOW", 2 * Cent, Cent, 3 * Cent, 2, NullSeed),
           Inputs("LOW", 2 * Cent, Cent, 2 * Cent, 3, NullSeed) }
    \cup { Inputs(v, b, Cent, 3 * Cent, n, SeedB) :
             v \in {"LOW", "MEDIUM", "HIGH"}, b \in {Cent, 2 * Cent}, n \in {2, 3} }
    \cup { Inputs("LOW", (2 * Cent) \div 5, Cent, t, 2, SeedB) : t \in {0, 3 * Cent} }
    \cup { Inputs("LOW", Cent, Cent, 0, 2, SeedB),
           Inputs("BOGUS", Cent, Cent, 3 * Cent, 2, SeedB) }

EmptySeed == [isNull |-> FALSE, chars |-> <<>>]

\* several requests in one worker: short runs with the seed "ab", one with
\* the empty seed, one that fails, one whose bet rounds to 0 cents
SharedInputs ==
    { Inputs("LOW", Cent, Cent, 2 * Cent, n, SeedAB) : n \in {1, 2} }
    \cup { Inputs("LOW", Cent, Cent, Cent, 1, EmptySeed),
           Inputs("BOGUS", Cent, Cent, Cent, 1, SeedAB),
           Inputs("LOW", (2 * Cent) \div 5, Cent, Cent, 1, SeedAB) }

\* one request of many sessions: the progress interval is 1, 2 and 3; one
\* request that fails, one whose bet rounds to 0 cents
CadenceInputs ==
    { Inputs("MEDIUM", Cent, Cent, Cent, n, SeedB) : n \in {1, 3, 201, 300} }
    \cup { Inputs("BOGUS", Cent, Cent, Cent, 1, SeedB),
           Inputs("MEDIUM", (2 * Cent) \div 5, Cent, Cent, 1, SeedB) }

\* one request under a fair event loop: a seeded run of two sessions, the
\* same with a bet that rounds to 0 cents, the same with a top-up amount of
\* 0, and one that fails
FairInputs ==
    { Inputs("LOW", b, Cent, 3 * Cent, 2, SeedB) : b \in {2 * Cent, (2 * Cent) \div 5} }
    \cup { Inputs("LOW", 2 * Cent, 0, 3 * Cent, 2, SeedB) }
    \cup { Inputs("BOGUS", Cent, Cent, 3 * Cent, 2, SeedB) }

\* the App before its first request: the running flag, the messages posted
\* to the worker and not yet handled by it, the number of messages of the
\* worker the App has handled, the number of simulate requests sent, and the
\* requests during which Cancel was pressed
IdleApp ==
    [running |-> FALSE, inbox |-> <<>>, received |-> 0, sent |-> 0,
     cancelsFor |-> {}]

\* the requests of the App: a run of two sessions, which yields to the event
\* loop between them, one that fails, one whose bet rounds to 0 cents
AppInputs ==
    { Inputs("LOW", Cent, Cent, 2 * Cent, 2, SeedAB),
      Inputs("BOGUS", Cent, Cent, Cent, 1, SeedAB),
      Inputs("LOW", (2 * Cent) \div 5, Cent, Cent, 1, SeedAB) }

Universe(name) ==
    CASE name = "session" -> SessionInputs
      [] name = "shared"  -> SharedInputs
      [] name = "cadence" -> CadenceInputs
      [] name = "fair"    -> FairInputs
      [] name = "app"     -> AppInputs

InitWith(name, requests) ==
    /\ cancelled = FALSE
    /\ cpu = 0
    /\ run = [r \in RunIds |-> IdleRun]
    /\ outbox = <<>>
    /\ env = [universe |-> name, requests |-> requests, cancels |-> MaxCancels,
              randomUUID |-> "unknown", app |-> IdleApp]
    /\ cancelSent = {}
    /\ clock = 0
    /\ uuids = 0
    /\ calc = IdleCalc

Init == InitWith("session", 1)

InitShared == InitWith("shared", MaxRequests)

InitCadence == InitWith("cadence", 1)

InitFair == InitWith("fair", 1)

InitApp == InitWith("app", MaxRequests)

\* a step of the code of run r
Step(r) ==
    \/ RunInit(r)
    \/ ForHead(r)
    \/ WhileHead(r)
    \/ SpinOn(r)
    \/ TopUp(r)
    \/ Debit(r)
    \/ Sample(r)
    \/ Credit(r)
    \/ Record(r)
    \/ Assemble(r)
    \/ ThenHandler(r)
    \/ CatchHandler(r)

Next ==
    \/ \E r \in RunIds : \E p \in Universe(env.universe) \cup {NoPayload} :
         OnMessageSimulate(r, p)
    \/ OnMessageCancel
    \/ \E r \in RunIds : TimerFire(r)
    \/ \E r \in RunIds : Step(r)

Spec == Init /\ [][Next]_vars

SpecShared == InitShared /\ [][Next]_vars

SpecCadence == InitCadence /\ [][Next]_vars

\* the event loop runs a task to its end and fires every timer
Fairness ==
    /\ WF_vars(\E r \in RunIds : Step(r))
    /\ WF_vars(\E r \in RunIds : TimerFire(r))

FairSpec == InitFair /\ [][Next]_vars /\ Fairness

(***************************************************************************)
(* The App and the worker together.  Messages posted to a worker are       *)
(* handled in the order they were posted, and so are the messages the      *)
(* worker posts to the App.                                                *)
(***************************************************************************)
TerminalTypes == {"done", "cancelled", "error"}

\* handleRun (lines 932-942), reached from the Run button, which is disabled
\* while running is set (line 1398)
HandleRun(payload) ==
    /\ ~env.app.running
    /\ env.requests > 0
    /\ env' = [env EXCEPT
            !.requests = @ - 1,
            !.app.running = TRUE,
            !.app.sent = @ + 1,
            !.app.inbox = Append(@, [type |-> "simulate", payload |-> payload,
                                     run |-> env.app.sent + 1])]
    /\ UNCHANGED <<cancelled, cpu, run, outbox, cancelSent, clock, uuids, calc>>

\* handleCancel (lines 944-946), reached from the Cancel button, which is
\* disabled unless running is set (line 1401)
HandleCancel ==
    /\ env.app.running
    /\ env.cancels > 0
    /\ env' = [env EXCEPT
            !.cancels = @ - 1,
            !.app.cancelsFor = @ \cup {env.app.sent},
            !.app.inbox = Append(@, [type |-> "cancel", payload |-> <<>>,
                                     run |-> env.app.sent])]
    /\ UNCHANGED <<cancelled, cpu, run, outbox, cancelSent, clock, uuids, calc>>

\* self.onmessage on the oldest message of the App with the flag left as it
\* is by a simulate message
WorkerReceive_KeepsFlag(r) ==
    /\ cpu = 0
    /\ env.app.inbox # <<>>
    /\ LET msg == Head(env.app.inbox)
       IN  /\ r = IF msg.type = "simulate" THEN msg.run ELSE 1
           /\ env' = [env EXCEPT !.app.inbox = Tail(@)]
           /\ CASE msg.type = "cancel" ->
                     /\ cancelled' = TRUE
                     /\ cancelSent' = cancelSent \cup {q \in RunIds : InFlight(q)}
                     /\ UNCHANGED <<cpu, run>>
                [] msg.type = "simulate" ->
                     /\ run[r].pc = "idle"
                     /\ run' = [run EXCEPT ![r] = [IdleRun EXCEPT !.pc = "init",
                                                                  !.inputs = msg.payload]]
                     /\ cpu' = r
                     /\ UNCHANGED <<cancelled, cancelSent>>
                [] OTHER ->
                     UNCHANGED <<cancelled, cpu, run, cancelSent>>
    /\ UNCHANGED <<outbox, clock, uuids, calc>>

\* self.onmessage (lines 108-133) on the oldest message of the App: a cancel
\* sets the flag, a simulate resets it and calls runSimulation, and a
\* message of another type (resample) changes nothing
WorkerReceive(r) ==
    /\ cpu = 0
    /\ env.app.inbox # <<>>
    /\ LET msg == Head(env.app.inbox)
       IN  /\ r = IF msg.type = "simulate" THEN msg.run ELSE 1
           /\ env' = [env EXCEPT !.app.inbox = Tail(@)]
           /\ CASE msg.type = "cancel" ->
                     /\ cancelled' = TRUE
                     /\ cancelSent' = cancelSent \cup {q \in RunIds : InFlight(q)}
                     /\ UNCHANGED <<cpu, run>>
                [] msg.type = "simulate" ->
                     /\ run[r].pc = "idle"
                     /\ cancelled' = FALSE
                     /\ run' = [run EXCEPT ![r] = [IdleRun EXCEPT !.pc = "init",
                                                                  !.inputs = msg.payload]]
                     /\ cpu' = r
                     /\ UNCHANGED cancelSent
                [] OTHER ->
                     UNCHANGED <<cancelled, cpu, run, cancelSent>>
    /\ UNCHANGED <<outbox, clock, uuids, calc>>

\* worker.onmessage of the App (lines 702-734) on the oldest message of the
\* worker not yet handled: a terminal message clears running; after 'done'
\* a resample request is posted when the sample step chosen is not the
\* first one
AppReceive ==
    /\ env.app.received < Len(outbox)
    /\ LET msg == outbox[env.app.received + 1]
       IN  \E resample \in (IF msg.type = "done" THEN BOOLEAN ELSE {FALSE}) :
             env' = [env EXCEPT
                 !.app.received = @ + 1,
                 !.app.running = IF msg.type \in TerminalTypes THEN FALSE ELSE @,
                 !.app.inbox = IF resample
                               THEN Append(@, [type |-> "resample", payload |-> <<>>,
                                               run |-> msg.rid])
                               ELSE @]
    /\ UNCHANGED <<cancelled, cpu, run, outbox, cancelSent, clock, uuids, calc>>

NextApp ==
    \/ \E p \in Universe(env.universe) : HandleRun(p)
    \/ HandleCancel
    \/ \E r \in RunIds : WorkerReceive(r)
    \/ AppReceive
    \/ \E r \in RunIds : TimerFire(r)
    \/ \E r \in RunIds : Step(r)

SpecApp == InitApp /\ [][NextApp]_vars

(***************************************************************************)
(* The aggregate statistics of the worker (IntroFoldoutGroup.tsx, lines    *)
(* 357-450), on exact fractions.                                           *)
(***************************************************************************)
\* Math.floor of a fraction
Floor(x) == x[1] \div x[2]

\* Math.ceil of a fraction
Ceil(x) == 0 - ((0 - x[1]) \div x[2])

\* percentileSorted returning the lower neighbour instead of interpolating
PercentileSorted_Nearest(sorted, percentile) ==
    IF Len(sorted) = 0 THEN Whole(0)
    ELSE sorted[Floor(RMul(RDiv(percentile, Whole(100)), Whole(Len(sorted) - 1))) + 1]

\* percentileSorted(sorted, percentile); sorted[i] of the code is
\* sorted[i + 1] here
PercentileSorted(sorted, percentile) ==
    IF Len(sorted) = 0 THEN Whole(0)
    ELSE Only({ Only({ IF b.lower = b.upper THEN sorted[b.lower + 1]
                       ELSE Only({ RAdd(RMul(sorted[b.lower + 1], RSub(Whole(1), weight)),
                                        RMul(sorted[b.upper + 1], weight)) :
                                   weight \in {RSub(index, Whole(b.lower))} }) :
                       b \in {[lower |-> Floor(index), upper |-> Ceil(index)]} }) :
                index \in {RMul(RDiv(percentile, Whole(100)), Whole(Len(sorted) - 1))} })

\* mean(values)
Mean(values) ==
    IF Len(values) = 0 THEN Whole(0) ELSE RDiv(RSum(values), Whole(Len(values)))

\* [...values].sort((a, b) => a - b): the sort is stable, values[j] moves to
\* the place after the smaller values and the equal values before it
SortAscending(values) ==
    Only({ [i \in 1..Len(values) |-> values[CHOOSE j \in 1..Len(values) : place[j] = i]] :
           place \in {[j \in 1..Len(values) |->
                         1 + Cardinality({m \in 1..Len(values) :
                                            \/ RLess(values[m], values[j])
                                            \/ values[m] = values[j] /\ m < j})]} })

\* sorted.slice(0, count)
SliceFirst(sorted, count) == SubSeq(sorted, 1, Min(count, Len(sorted)))

\* the count of computeAggregate without its minimum of 1
CvarCount_NoMinimum(length, alpha) == Floor(RMul(Whole(length), alpha))

\* Math.max(1, Math.floor(finalNets.length * alpha)), lines 379-380
CvarCount(length, alpha) == Max(1, Floor(RMul(Whole(length), alpha)))

\* the final_net part of computeAggregate(finalNets, ...), without the
\* standard deviation, which is no fraction
ComputeAggregate(finalNets) ==
    Only({ [sortedFinals |-> sortedFinals,
            mean   |-> Mean(finalNets),
            median |-> PercentileSorted(sortedFinals, Whole(50)),
            min    |-> IF sortedFinals = <<>> THEN <<>> ELSE sortedFinals[1],
            max    |-> IF sortedFinals = <<>> THEN <<>> ELSE sortedFinals[Len(sortedFinals)],
            p05    |-> PercentileSorted(sortedFinals, Whole(5)),
            p95    |-> PercentileSorted(sortedFinals, Whole(95)),
            cvar_5 |-> Mean(SliceFirst(sortedFinals, CvarCount(Len(finalNets), <<1, 20>>))),
            cvar_1 |-> Mean(SliceFirst(sortedFinals, CvarCount(Len(finalNets), <<1, 100>>)))] :
           sortedFinals \in {SortAscending(finalNets)} })

(***************************************************************************)
(* The library functions, evaluated on their own.  A tier is given by the  *)
(* weights and multipliers of its buckets; like the three tiers of the     *)
(* code it has a zero-payout outcome of positive probability first and     *)
(* multipliers in ascending order below max_multiplier.  A fourth tier,    *)
(* FLAT, has buckets of weight 0 only, for which buildBucketedOutcomes     *)
(* returns the zero-payout outcome alone (lines 62-64).                    *)
(***************************************************************************)
BucketConfig(zero_probability, weights, multipliers, max_multiplier) ==
    [zero_probability |-> zero_probability, weights |-> weights,
     multipliers |-> multipliers, max_multiplier |-> max_multiplier]

\* VOLATILITY_TEMPLATES, for three tiers of three buckets
VOLATILITY_TEMPLATES ==
    [LOW    |-> BuildBucketedTemplate(BucketConfig(
                    <<1, 2>>, <<Whole(2), Whole(1), Whole(1)>>,
                    <<<<1, 2>>, Whole(1), Whole(4)>>, Whole(5))),
     MEDIUM |-> BuildBucketedTemplate(BucketConfig(
                    <<7, 10>>, <<Whole(3), Whole(2), Whole(1)>>,
                    <<<<1, 2>>, Whole(2), Whole(8)>>, Whole(10))),
     HIGH   |-> BuildBucketedTemplate(BucketConfig(
                    <<22, 25>>, <<Whole(4), Whole(3), Whole(0), Whole(1)>>,
                    <<<<1, 4>>, Whole(1), Whole(5), Whole(30)>>, Whole(40))),
     FLAT   |-> BuildBucketedTemplate(BucketConfig(
                    <<1, 2>>, <<Whole(0), Whole(0)>>,
                    <<Whole(1), Whole(2)>>, Whole(5)))]

\* target returns: below, at and above what the caps allow
TargetReturns ==
    {<<1, 2>>, <<9, 10>>, Whole(1), <<3, 2>>, Whole(2), Whole(3), Whole(6)}

\* values of rng(): 0, values inside the cdf steps and on them, and values
\* just below 1
Uniforms ==
    {Whole(0), <<1, 4>>, <<1, 2>>, <<7, 10>>, <<22, 25>>, <<9, 10>>,
     <<999, 1000>>, <<999999, 1000000>>}

\* the streams handed to sampleMultiplier: up to MaxSamples values
RngStreams == UNION { [1..n -> Uniforms] : n \in 1..MaxSamples }

\* distributions handed to sampleMultiplier that no tier yields: the empty
\* one, and one whose cdf ends below 1
LooseDistributions ==
    { [multipliers |-> <<>>, cdf |-> <<>>, mean |-> Whole(0)],
      [multipliers |-> <<Whole(0), Whole(2)>>, cdf |-> <<<<1, 2>>, <<9, 10>>>>,
       mean |-> <<4, 5>>] }

\* the values of the sequences handed to percentileSorted, in dollars
SortedValues == <<<<0 - 5, 2>>, Whole(1), Whole(2), Whole(3), Whole(4)>>

\* the ascending sequences of up to MaxSorted of these values
SortedSequences ==
    { [i \in 1..Len(f) |-> SortedValues[f[i]]] :
        f \in { g \in UNION { [1..n -> 1..Len(SortedValues)] : n \in 0..MaxSorted } :
                  \A i \in 1..(Len(g) - 1) : g[i] <= g[i + 1] } }

\* the percentiles computeAggregate asks for (lines 371, 392-400), the two
\* ends of [0, 100] and two that are not whole
Percentiles ==
    { Whole(p) : p \in {0, 1, 5, 10, 25, 50, 75, 90, 95, 99, 100} }
      \cup { <<25, 2>>, <<100, 3>> }

\* the numbers of sessions whose final nets are aggregated
SessionCounts == {1, 2, 19, 20, 21, 39, 40, 100, 101}

\* the final nets of n sessions in dollars, whole cents between -5.75 and
\* 5.25 in an order that is not ascending, one sequence for each shape
NetShapes == {3, 5, 7}

FinalNets(n, k) == [i \in 1..n |-> Frac(((i * k) % 23) * 50 + (i % 3) - 575, 100)]

\* the wagered values of the traces handed to downsampleTrajectory: up to
\* MaxTrace values of 0, 1, 2 and 4 cents that never decrease; neighbours
\* are 0, 1, 2 or 4 cents apart, distances for which the thousandths of
\* Interpolate are exact
Traces ==
    { t \in UNION { [1..n -> {0, Cent, 2 * Cent, 4 * Cent}] : n \in 1..MaxTrace } :
        \A i \in 1..(Len(t) - 1) : t[i] <= t[i + 1] /\ t[i + 1] - t[i] # 3 * Cent }

\* the net values of a trace
TraceNets == {0 - 2 * Cent, 3 * Cent}

\* the grids: those of buildCoinInGrid for 1, 2, 3 and 5 points up to 2 and
\* 4 cents, one that ends beyond every trace and one with a point twice
Grids ==
    { BuildCoinInGrid(points, maxCoinIn) :
        points \in {1, 2, 3, 5}, maxCoinIn \in {2 * Cent, 4 * Cent} }
      \cup { <<Cent \div 2, 3 * Cent, 5 * Cent>>, <<Cent, Cent, 2 * Cent>> }

\* the arguments of sampleRunIndices: small session counts with small steps,
\* and session counts around the multiples of the default step
IndexArguments ==
    ((1..12) \X {1, 2, 3, 5})
      \cup ({1, 2, 99, 100, 101, 199, 200, 250, 300} \X {SampleStep})

InitCalc ==
    /\ cancelled = FALSE
    /\ cpu = 0
    /\ run = [r \in RunIds |-> IdleRun]
    /\ outbox = <<>>
    /\ env = [universe |-> "session", requests |-> 0, cancels |-> 0,
              randomUUID |-> "unknown"]
    /\ cancelSent = {}
    /\ clock = 0
    /\ uuids = 0
    /\ \/ \E v \in DOMAIN VOLATILITY_TEMPLATES, t \in TargetReturns, s \in RngStreams :
            calc = [step |-> "calibrate", volatility |-> v, rtpMean |-> t,
                    distribution |-> <<>>, rebalance |-> <<>>, rng |-> s,
                    u |-> <<>>, value |-> <<>>]
       \/ \E d \in LooseDistributions, s \in RngStreams :
            calc = [step |-> "sample", volatility |-> "", rtpMean |-> <<>>,
                    distribution |-> d, rebalance |-> <<>>, rng |-> s,
                    u |-> <<>>, value |-> <<>>]
       \/ \E sorted \in SortedSequences, p \in Percentiles :
            calc = [step |-> "percentile", sorted |-> sorted, percentile |-> p,
                    value |-> <<>>]
       \/ \E n \in SessionCounts, k \in NetShapes :
            calc = [step |-> "aggregate", finalNets |-> FinalNets(n, k), value |-> <<>>]
       \/ \E coinIn \in Traces, grid \in Grids :
            \E net \in [1..Len(coinIn) -> TraceNets] :
              calc = [step |-> "downsample", coinIn |-> coinIn, net |-> net,
                      grid |-> grid, cursor |-> <<>>, value |-> <<>>]
       \/ \E a \in IndexArguments :
            calc = [step |-> "indices", totalRuns |-> a[1], sampleStep |-> a[2],
                    value |-> <<>>]

\* a call of buildCalibratedDistribution
CalcCalibrate ==
    /\ calc.step = "calibrate"
    /\ calc' = [calc EXCEPT
                  !.step = "sample",
                  !.distribution =
                      BuildCalibratedDistribution(VOLATILITY_TEMPLATES[calc.volatility],
                                                  calc.rtpMean),
                  !.rebalance =
                      RebalanceOf(VOLATILITY_TEMPLATES[calc.volatility], calc.rtpMean)]
    /\ UNCHANGED worker

\* a call of sampleMultiplier
CalcSample ==
    /\ calc.step \in {"sample", "sampled"}
    /\ calc.rng # <<>>
    /\ \E res \in {SampleMultiplier(calc.distribution, calc.rng)} :
         calc' = [calc EXCEPT !.step = "sampled", !.u = Head(calc.rng),
                              !.value = res.value, !.rng = res.rng]
    /\ UNCHANGED worker

\* a call of percentileSorted
CalcPercentile ==
    /\ calc.step = "percentile"
    /\ calc' = [calc EXCEPT !.step = "percentiled",
                            !.value = PercentileSorted(calc.sorted, calc.percentile)]
    /\ UNCHANGED worker

\* a call of computeAggregate
CalcAggregate ==
    /\ calc.step = "aggregate"
    /\ calc' = [calc EXCEPT !.step = "aggregated",
                            !.value = ComputeAggregate(calc.finalNets)]
    /\ UNCHANGED worker

\* a call of sampleRunIndices
CalcIndices ==
    /\ calc.step = "indices"
    /\ calc' = [calc EXCEPT !.step = "indexed",
                            !.value = SampleRunIndicesBy(calc.totalRuns, calc.sampleStep)]
    /\ UNCHANGED worker

\* a call of downsampleTrajectory
CalcDownsample ==
    /\ calc.step = "downsample"
    /\ calc' = [calc EXCEPT
                  !.step = "downsampled",
                  !.cursor = CursorFrom(calc.coinIn, calc.grid, 1, 0),
                  !.value = DownsampleTrajectory(calc.coinIn, calc.net, calc.grid)]
    /\ UNCHANGED worker

NextCalc ==
    \/ CalcCalibrate
    \/ CalcSample
    \/ CalcPercentile
    \/ CalcAggregate
    \/ CalcIndices
    \/ CalcDownsample

SpecCalc == InitCalc /\ [][NextCalc]_vars

(***************************************************************************)
(* Properties.                                                             *)
(***************************************************************************)
Started(r) == run[r].pc # "idle"

\* the wager of spin k of the session at hand, in ticks
WagerOf(r, k) == run[r].coinInHistory[k + 1] - run[r].coinInHistory[k]

\* the messages of run r in the outbox, in order
RECURSIVE MessagesOf(_, _)
MessagesOf(r, box) ==
    IF box = <<>> THEN <<>>
    ELSE (IF Head(box).rid = r THEN <<Head(box)>> ELSE <<>>) \o MessagesOf(r, Tail(box))

\* C1: with a bet of at least one cent the accumulated wager never exceeds
\* the target (in cents), spin k wagers min(bet, target - wagered so far),
\* the wagers add up to the accumulated wager, and a recorded session has
\* total_coin_in equal to the target (round(coin_in_target * 100) cents).
C1_WagerReachesTargetExactly ==
    \A r \in RunIds :
      (Started(r) /\ BetCents(run[r].inputs) >= 1) =>
        LET bet    == BetCents(run[r].inputs)
            target == TargetCents(run[r].inputs)
            hist   == run[r].coinInHistory
        IN  /\ run[r].coinInCents <= target
            /\ hist # <<>> =>
                 /\ hist[1] = 0
                 /\ hist[Len(hist)] = run[r].coinInCents * Cent
                 /\ Len(hist) = run[r].spins + 1
                 /\ \A k \in 1..(Len(hist) - 1) :
                      WagerOf(r, k)
                        = Cent * (IF bet < target - (hist[k] \div Cent)
                                  THEN bet ELSE target - (hist[k] \div Cent))
            /\ run[r].pc \in {"topup", "debit", "sample", "credit"} =>
                 run[r].spinBetCents
                   = (IF bet < target - run[r].coinInCents
                      THEN bet ELSE target - run[r].coinInCents)
            /\ run[r].pc = "record" => run[r].coinInCents = target
            /\ \A i \in 1..Len(run[r].runs) :
                 run[r].runs[i].total_coin_in = target * Cent

\* a session is being recorded whose last spin wagered less than the bet
C1_Witness ==
    \E r \in RunIds :
      /\ run[r].pc = "record"
      /\ BetCents(run[r].inputs) >= 1
      /\ run[r].spins >= 2
      /\ WagerOf(r, run[r].spins) < BetCents(run[r].inputs) * Cent
      /\ WagerOf(r, run[r].spins) > 0

\* C2: with a bet of at least one cent every session takes
\* ceil(targetCents / betCents) spins, whatever the payouts, and this is the
\* spinsPerRun of the App.
C2_SpinCount ==
    \A r \in RunIds :
      (Started(r) /\ BetCents(run[r].inputs) >= 1) =>
        LET bet    == BetCents(run[r].inputs)
            target == TargetCents(run[r].inputs)
            ceil   == (target + bet - 1) \div bet
        IN  /\ ceil = SpinsPerRun(run[r].inputs)
            /\ run[r].spins <= ceil
            /\ run[r].pc = "record" => run[r].spins = ceil
            /\ \A i \in 1..Len(run[r].runs) : run[r].runs[i].spins = ceil

\* two sessions of an unseeded run are recorded, the target is no multiple
\* of the bet, and they paid differently
C2_Witness ==
    \E r \in RunIds :
      /\ Len(run[r].runs) = 2
      /\ BetCents(run[r].inputs) = 2
      /\ TargetCents(run[r].inputs) = 3
      /\ run[r].inputs.seed.isNull
      /\ run[r].runs[1].total_payout # run[r].runs[2].total_payout
      /\ run[r].runs[1].spins = 2

\* C3 (as claimed): the balance is never negative.
C3_BalanceNeverNegative ==
    \A r \in RunIds : Started(r) => run[r].balance >= 0

\* C4 (as claimed): a run whose target is zero or whose bet rounds to zero
\* cents takes no spin.
C4_ZeroWagerIsZeroSpin ==
    \A r \in RunIds :
      (Started(r) /\ (TargetCents(run[r].inputs) = 0 \/ BetCents(run[r].inputs) = 0))
        => run[r].spins = 0

\* the terminal message types
Terminal == {"done", "cancelled", "error"}

\* the positions in the outbox of the messages of run r with a type in types
Positions(r, types) ==
    {i \in 1..Len(outbox) : outbox[i].rid = r /\ outbox[i].type \in types}

\* a seed string that is neither absent nor empty
NonEmptySeed(inputs) == ~inputs.seed.isNull /\ inputs.seed.chars # <<>>

\* C5 (as claimed): a run that was in flight when a cancel message was
\* handled never posts 'done', whatever messages follow the cancel.
C5_CancelledRunNeverDone ==
    \A r \in cancelSent : Positions(r, {"done"}) = {}

\* the positions of the code inside a session
MidSession == {"while", "topup", "debit", "sample", "credit", "record"}

C7_ExactlyOneTerminal ==
    /\ [](\A r \in RunIds :
            /\ Cardinality(Positions(r, Terminal)) <= 1
            /\ \A i \in Positions(r, Terminal) : \A j \in Positions(r, {"progress"}) :
                 j < i)
    /\ \A r \in RunIds : Started(r) ~> (Positions(r, Terminal) # {})

\* the indices up to n at which a run of total sessions reports progress, as
\* the claim words the cadence
CadenceIndices(n, total) ==
    {i \in 1..n : i % (IF total \div 100 >= 1 THEN total \div 100 ELSE 1) = 0
                  \/ i = total}

\* the progress message of run r after session i
ProgressMsg(r, i) ==
    [type |-> "progress", rid |-> r,
     payload |-> [completed |-> i, total |-> run[r].inputs.runs]]

\* C8: the progress messages of a run are, in order, those of the cadence
\* indices among its recorded sessions (so completed increases strictly and
\* stays within N); recording a session at a cadence index posts the message
\* and suspends the run, recording any other session does neither; a 'done'
\* message comes after progress(N, N).
C8_ProgressCadence ==
    /\ [](\A r \in RunIds : Started(r) =>
            LET msgs == MessagesOf(r, outbox)
                prog == SelectSeq(msgs, LAMBDA m : m.type = "progress")
                n    == Len(run[r].runs)
            IN  /\ prog = [k \in 1..Len(prog) |-> ProgressMsg(r, prog[k].payload.completed)]
                /\ {prog[k].payload.completed : k \in 1..Len(prog)}
                     = CadenceIndices(n, run[r].inputs.runs)
                /\ \A k \in 1..(Len(prog) - 1) :
                     prog[k].payload.completed < prog[k + 1].payload.completed
                /\ \A k \in 1..Len(prog) :
                     prog[k].payload.completed <= run[r].inputs.runs
                /\ \A i \in Positions(r, {"done"}) :
                     \E j \in 1..(i - 1) :
                        outbox[j] = ProgressMsg(r, run[r].inputs.runs))
    /\ [][\A r \in RunIds :
            Len(run'[r].runs) = Len(run[r].runs) + 1 =>
                IF Len(run'[r].runs) \in CadenceIndices(Len(run'[r].runs), run[r].inputs.runs)
                THEN /\ outbox' = Append(outbox, ProgressMsg(r, Len(run'[r].runs)))
                     /\ run'[r].pc = "yielded"
                     /\ cpu' = 0
                ELSE /\ outbox' = outbox
                     /\ run'[r].pc = "for"
                     /\ cpu' = cpu]_vars

\* a run of 201 sessions (interval 2) has posted 'done' after 101 progress
\* messages, the last one for session 201
C8_Witness ==
    \E r \in RunIds :
      /\ Started(r)
      /\ run[r].inputs.runs = 201
      /\ Positions(r, {"done"}) # {}
      /\ Cardinality(Positions(r, {"progress"})) = 101

\* C9: two runs with identical inputs and a non-empty seed have recorded the
\* same RunMetrics, element by element, as far as both have got; if both
\* have posted 'done' their lists are the same.
C9_SeededRunsAgree ==
    \A r1, r2 \in RunIds :
      (Started(r1) /\ Started(r2) /\ run[r1].inputs = run[r2].inputs
         /\ NonEmptySeed(run[r1].inputs)) =>
        /\ \A i \in 1..Min(Len(run[r1].runs), Len(run[r2].runs)) :
             run[r1].runs[i] = run[r2].runs[i]
        /\ (Positions(r1, {"done"}) # {} /\ Positions(r2, {"done"}) # {}) =>
             run[r1].runs = run[r2].runs

\* two runs with the same seeded inputs are suspended at the same time, each
\* between its sessions, and a recorded session has paid
C9_Witness ==
    \E r1, r2 \in RunIds :
      /\ r1 # r2
      /\ run[r1].pc = "yielded" /\ run[r2].pc = "yielded"
      /\ run[r1].inputs = run[r2].inputs
      /\ NonEmptySeed(run[r1].inputs)
      /\ Len(run[r2].runs) >= 1
      /\ Len(run[r1].runs) > Len(run[r2].runs)
      /\ \E i \in 1..Len(run[r1].runs) : run[r1].runs[i].total_payout > 0

\* the pairs of 'done' messages of runs with identical seeded inputs
SeededDonePairs ==
    {p \in (1..Len(outbox)) \X (1..Len(outbox)) :
        /\ p[1] < p[2]
        /\ outbox[p[1]].type = "done" /\ outbox[p[2]].type = "done"
        /\ outbox[p[1]].payload.result.inputs = outbox[p[2]].payload.result.inputs
        /\ NonEmptySeed(outbox[p[1]].payload.result.inputs)}

\* C10 (as claimed): the results of two runs with identical inputs and a
\* non-empty seed are equal in every field.
C10_IdenticalResult ==
    \A p \in SeededDonePairs :
      outbox[p[1]].payload.result = outbox[p[2]].payload.result

\* a result without the two fields of meta that name the run: its
\* identifier and its creation time
WithoutIdentity(result) ==
    [result EXCEPT !.meta.id = 0, !.meta.created_at = 0]

\* C10 (amended): the results of two runs with identical inputs and a
\* non-empty seed are equal in every field but meta.id and meta.created_at;
\* the identifiers differ.
C10_IdenticalButIdentity ==
    \A p \in SeededDonePairs :
      /\ WithoutIdentity(outbox[p[1]].payload.result)
           = WithoutIdentity(outbox[p[2]].payload.result)
      /\ outbox[p[1]].payload.result.meta.id # outbox[p[2]].payload.result.meta.id

\* two runs with identical seeded inputs have both posted 'done', at
\* different readings of the clock
C10_Witness ==
    \E p \in SeededDonePairs :
      outbox[p[1]].payload.result.meta.created_at
        # outbox[p[2]].payload.result.meta.created_at

\* the run has set up its streams and has not drawn for a spin yet
BeforeFirstSpin(r) ==
    /\ run[r].pc \in {"for", "while", "topup", "debit", "sample"}
    /\ run[r].runs = <<>>
    /\ run[r].spins = 0

\* C11: when the pre-pass is over the primary stream is as createRng(seed)
\* made it, however many values the pre-pass has drawn from the secondary
\* stream; afterwards the primary stream changes only in the step that
\* samples a spin, and the secondary stream not at all.
C11_PrePassLeavesPrimaryStream ==
    /\ [](\A r \in RunIds :
            BeforeFirstSpin(r) => run[r].rng = CreateRng(run[r].inputs.seed))
    /\ [][\A r \in RunIds :
            (run[r].pc \notin {"idle", "init"}) =>
                /\ run'[r].capRng = run[r].capRng
                /\ run'[r].rng # run[r].rng => run[r].pc = "sample"]_vars

\* a seeded run is about to sample its first spin: the secondary stream has
\* moved on from its seed, the primary stream has not
C11_Witness ==
    \E r \in RunIds :
      /\ BeforeFirstSpin(r)
      /\ run[r].pc = "sample"
      /\ NonEmptySeed(run[r].inputs)
      /\ run[r].capRng # CreateRng(CapSeed(run[r].inputs.seed))
      /\ run[r].rng.t = Xmur3(run[r].inputs.seed.chars)

\* C12: a run whose promise is rejected has no terminal message until the
\* catch callback runs; once it has run, the messages of the run hold
\* exactly one 'error', carrying the message of the exception, and neither
\* 'done' nor 'cancelled', so no result with the sessions recorded so far.
C12_ErrorIsTheOnlyAnswer ==
    \A r \in RunIds :
      /\ run[r].pc = "rejected" => Positions(r, Terminal) = {}
      /\ (run[r].pc = "finished" /\ run[r].error # "") =>
           /\ Cardinality(Positions(r, {"error"})) = 1
           /\ \A i \in Positions(r, {"error"}) :
                outbox[i].payload = [message |-> run[r].error]
           /\ Positions(r, {"done", "cancelled"}) = {}
           /\ \A i \in Positions(r, {"progress", "error"}) :
                "result" \notin DOMAIN outbox[i].payload
      /\ Positions(r, {"error"}) # {} => run[r].error # ""

\* a run that had recorded a session and seen a cancel failed while its
\* result was assembled, and has been answered
C12_Witness ==
    \E r \in cancelSent :
      /\ run[r].pc = "finished"
      /\ run[r].error = "crypto.randomUUID is not a function"
      /\ Len(run[r].runs) >= 1
      /\ cancelled

\* a distribution that buildCalibratedDistribution has returned is at hand
Calibrated == calc.step \in {"sample", "sampled"} /\ calc.volatility # ""

\* the outcomes of the tier under evaluation with their probabilities
\* divided by their sum
NormalizedTemplate ==
    LET outcomes == VOLATILITY_TEMPLATES[calc.volatility].outcomes
        total    == RSum([i \in 1..Len(outcomes) |-> outcomes[i].p])
    IN  [i \in 1..Len(outcomes) |->
            [m_base |-> outcomes[i].m_base, p |-> RDiv(outcomes[i].p, total)]]

\* mu_base = sum of p_i * m_base_i
MuBase ==
    RSum([i \in 1..Len(NormalizedTemplate) |->
            RMul(NormalizedTemplate[i].p, NormalizedTemplate[i].m_base)])

\* the cap of the tier under evaluation
CapOfTier == VOLATILITY_TEMPLATES[calc.volatility].max_multiplier_allowed

\* C13: the multipliers and the cdf of a returned distribution have the same
\* length, the cdf does not decrease, and its last entry is 1.
C13_CdfWellFormed ==
    Calibrated =>
      LET d == calc.distribution
      IN  /\ Len(d.multipliers) = Len(d.cdf)
          /\ Len(d.cdf) >= 1
          /\ \A i \in 1..(Len(d.cdf) - 1) : RLeq(d.cdf[i], d.cdf[i + 1])
          /\ d.cdf[Len(d.cdf)] = <<1, 1>>

\* a returned distribution has a multiplier at the cap and one below it
C13_Witness ==
    /\ Calibrated
    /\ \E i, j \in 1..Len(calc.distribution.multipliers) :
         /\ calc.distribution.multipliers[i] = CapOfTier
         /\ RLess(Whole(0), calc.distribution.multipliers[j])
         /\ RLess(calc.distribution.multipliers[j], CapOfTier)

\* C14: no multiplier of a returned distribution exceeds the cap of its
\* tier, an outcome of base multiplier 0 has multiplier 0, and the steps of
\* the cdf are the probabilities of the template divided by their sum.
C14_CapRespected ==
    Calibrated =>
      LET d == calc.distribution
      IN  /\ Len(d.multipliers) = Len(NormalizedTemplate)
          /\ \A i \in 1..Len(d.multipliers) :
               /\ RLeq(d.multipliers[i], CapOfTier)
               /\ RLeq(Whole(0), d.multipliers[i])
               /\ NormalizedTemplate[i].m_base = Whole(0) => d.multipliers[i] = Whole(0)
               /\ RSub(d.cdf[i], IF i = 1 THEN Whole(0) ELSE d.cdf[i - 1])
                    = NormalizedTemplate[i].p

\* the largest multiplier was cut to the cap and another one was raised
\* beyond its scaled value to make up for it
C14_Witness ==
    /\ Calibrated
    /\ RLess(Whole(0), MuBase)
    /\ \E i, j \in 1..Len(calc.distribution.multipliers) :
         /\ calc.distribution.multipliers[i] = CapOfTier
         /\ RLess(CapOfTier,
                  RMul(NormalizedTemplate[i].m_base, RDiv(calc.rtpMean, MuBase)))
         /\ RLess(RMul(NormalizedTemplate[j].m_base, RDiv(calc.rtpMean, MuBase)),
                  calc.distribution.multipliers[j])
         /\ RLess(calc.distribution.multipliers[j], CapOfTier)

\* no scaled multiplier m_base_i * k, k = target / mu_base, exceeds the cap
NoCapping ==
    /\ RLess(Whole(0), MuBase)
    /\ \A i \in 1..Len(NormalizedTemplate) :
         RLeq(RMul(NormalizedTemplate[i].m_base, RDiv(calc.rtpMean, MuBase)), CapOfTier)

\* C15: with no capping in effect the mean of the returned distribution is
\* the target return to within 1e-6, and every multiplier is the base
\* multiplier times k = target / mu_base.
C15_UncappedMeanIsTarget ==
    (Calibrated /\ NoCapping) =>
      LET d    == calc.distribution
          diff == RSub(d.mean, calc.rtpMean)
      IN  /\ RLeq(<<Abs(diff[1]), diff[2]>>, <<1, 1000000>>)
          /\ \A i \in 1..Len(d.multipliers) :
               d.multipliers[i]
                 = RMul(NormalizedTemplate[i].m_base, RDiv(calc.rtpMean, MuBase))

\* a distribution was returned uncapped, scaled by a k other than 1
C15_Witness ==
    /\ Calibrated
    /\ NoCapping
    /\ RDiv(calc.rtpMean, MuBase) # Whole(1)
    /\ Len(calc.distribution.multipliers) >= 3

\* the least index i with u <= cdf[i], or 0 when there is none
FirstAtLeast(d, u) ==
    LET hits == {i \in 1..Len(d.cdf) : RLeq(u, d.cdf[i])}
    IN  IF hits = {} THEN 0 ELSE CHOOSE i \in hits : \A j \in hits : i <= j

\* C16: a call of sampleMultiplier takes one value u off the stream and
\* returns the multiplier at the least index i with u <= cdf[i]; when there
\* is no such index it returns the last multiplier, and 0 when there is none.
C16_SampleIsFirstCdfHit ==
    [][calc'.step = "sampled" =>
         LET d == calc.distribution
             u == Head(calc.rng)
         IN  /\ calc'.rng = Tail(calc.rng)
             /\ Len(calc'.rng) = Len(calc.rng) - 1
             /\ calc'.u = u
             /\ calc'.value =
                  IF FirstAtLeast(d, u) # 0 THEN d.multipliers[FirstAtLeast(d, u)]
                  ELSE IF d.multipliers = <<>> THEN Whole(0)
                  ELSE d.multipliers[Len(d.multipliers)]]_vars

\* a value above every entry of the cdf was drawn and the last multiplier,
\* not 0, returned
C16_Witness ==
    /\ calc.step = "sampled"
    /\ FirstAtLeast(calc.distribution, calc.u) = 0
    /\ calc.distribution.multipliers # <<>>
    /\ calc.value = calc.distribution.multipliers[Len(calc.distribution.multipliers)]
    /\ calc.value # Whole(0)

\* the value of rng() taken for "just below 1"
JustBelowOne == <<999999, 1000000>>

\* C17: on a returned distribution u = 0 yields the multiplier of the first
\* outcome whose cumulative probability is positive, and u just below 1
\* yields the last multiplier.
C17_SampleAtTheEnds ==
    (Calibrated /\ calc.step = "sampled") =>
      LET d        == calc.distribution
          positive == {i \in 1..Len(d.cdf) : RLess(Whole(0), d.cdf[i])}
      IN  /\ calc.u = Whole(0) =>
               calc.value = d.multipliers[CHOOSE i \in positive : \A j \in positive : i <= j]
          /\ calc.u = JustBelowOne => calc.value = d.multipliers[Len(d.multipliers)]

\* u just below 1 was drawn on a distribution whose last two multipliers
\* differ, after u = 0 had been drawn on it
C17_Witness ==
    /\ Calibrated
    /\ calc.step = "sampled"
    /\ calc.u = JustBelowOne
    /\ calc.rng = <<>>
    /\ Len(calc.distribution.multipliers) >= 2
    /\ calc.distribution.multipliers[Len(calc.distribution.multipliers)]
         # calc.distribution.multipliers[Len(calc.distribution.multipliers) - 1]
    /\ calc.value # Whole(0)

\* the linear interpolation of the sequence s at the continuous rank, the
\* first entry having rank 0
InterpolateAtRank(s, rank) ==
    LET i == CHOOSE k \in 0..(Len(s) - 1) :
               /\ RLeq(Whole(k), rank)
               /\ k = Len(s) - 1 \/ RLess(rank, Whole(k + 1))
    IN  IF i = Len(s) - 1 THEN s[i + 1]
        ELSE RAdd(s[i + 1], RMul(RSub(rank, Whole(i)), RSub(s[i + 2], s[i + 1])))

\* C18: percentileSorted(sorted, p) is the linear interpolation of the
\* ascending sequence at the rank p/100 * (n - 1) when the sequence is not
\* empty, so that the 50th percentile of 1, 2, 3, 4 is 2.5, and is 0 when
\* the sequence is empty.
C18_PercentileInterpolates ==
    calc.step = "percentiled" =>
      /\ calc.sorted = <<>> => calc.value = Whole(0)
      /\ calc.sorted # <<>> =>
           calc.value =
             InterpolateAtRank(calc.sorted,
                               Frac(calc.percentile[1] * (Len(calc.sorted) - 1),
                                    calc.percentile[2] * 100))
      /\ (calc.sorted = <<Whole(1), Whole(2), Whole(3), Whole(4)>>
            /\ calc.percentile = Whole(50)) => calc.value = <<5, 2>>

\* the 50th percentile of 1, 2, 3, 4 was computed and is 2.5
C18_Witness ==
    /\ calc.step = "percentiled"
    /\ calc.sorted = <<Whole(1), Whole(2), Whole(3), Whole(4)>>
    /\ calc.percentile = Whole(50)
    /\ calc.value = <<5, 2>>

\* sortedFinals holds the final nets in ascending order
AscendingFinals ==
    LET sorted == calc.value.sortedFinals
    IN  /\ Len(sorted) = Len(calc.finalNets)
        /\ \A i \in 1..(Len(sorted) - 1) : RLeq(sorted[i], sorted[i + 1])
        /\ \A v \in {sorted[i] : i \in 1..Len(sorted)}
                      \cup {calc.finalNets[i] : i \in 1..Len(calc.finalNets)} :
             Cardinality({i \in 1..Len(sorted) : sorted[i] = v})
               = Cardinality({i \in 1..Len(sorted) : calc.finalNets[i] = v})

\* the mean of the count worst final nets
WorstMean(count) ==
    RDiv(RSum(SubSeq(calc.value.sortedFinals, 1, count)), Whole(count))

\* C19 as stated: for n >= 1 sessions the reported CVaR(5%) and CVaR(1%) are
\* the means of the worst max(1, ceil(n * alpha)) final nets.
C19_CvarOfCeiling ==
    calc.step = "aggregated" =>
      /\ AscendingFinals
      /\ calc.value.cvar_5 = WorstMean(Max(1, Ceil(<<Len(calc.finalNets), 20>>)))
      /\ calc.value.cvar_1 = WorstMean(Max(1, Ceil(<<Len(calc.finalNets), 100>>)))

\* C19 amended: for n >= 1 sessions the reported CVaR(5%) and CVaR(1%) are
\* the means of the worst max(1, floor(n * alpha)) final nets.
C19_CvarOfFloor ==
    calc.step = "aggregated" =>
      /\ AscendingFinals
      /\ calc.value.cvar_5 = WorstMean(Max(1, Len(calc.finalNets) \div 20))
      /\ calc.value.cvar_1 = WorstMean(Max(1, Len(calc.finalNets) \div 100))

\* 101 final nets were aggregated: CVaR(5%) is the mean of the worst 5 and
\* not of the worst 6, CVaR(1%) the worst value and not the mean of two
C19_Witness ==
    /\ calc.step = "aggregated"
    /\ Len(calc.finalNets) = 101
    /\ calc.value.cvar_5 = WorstMean(5)
    /\ calc.value.cvar_5 # WorstMean(6)
    /\ calc.value.cvar_1 = WorstMean(1)
    /\ calc.value.cvar_1 # WorstMean(2)

\* the final nets of the sessions of a result, in the order of the sessions
FinalNetsOf(result) == [i \in 1..Len(result.runs) |-> result.runs[i].final_net]

\* the smallest session index at which the final net is the given one
FirstWith(nets, value) ==
    CHOOSE i \in 1..Len(nets) : nets[i] = value /\ \A j \in 1..(i - 1) : nets[j] # value

\* the largest and the smallest of the final nets
MaxNet(nets) == CHOOSE v \in {nets[i] : i \in 1..Len(nets)} : \A i \in 1..Len(nets) : nets[i] <= v

MinNet(nets) == CHOOSE v \in {nets[i] : i \in 1..Len(nets)} : \A i \in 1..Len(nets) : v <= nets[i]

\* the result of run r is assembled and holds every session asked for (a
\* cancel request ends the loop over the sessions early)
AllSessionsRun(r) ==
    /\ run[r].result # <<>>
    /\ Len(run[r].result.runs) = run[r].result.inputs.runs

\* C20: in the result of a run with all its sessions best_run_index is the
\* smallest index of a session whose final net is the largest,
\* worst_run_index the smallest index of a session whose final net is the
\* smallest, and the best and the worst trajectory are the traces of these
\* two sessions on the grid.
C20_BestWorstFirstOccurrence ==
    \A r \in RunIds :
      AllSessionsRun(r) =>
        LET result == run[r].result
            nets   == FinalNetsOf(result)
            best   == result.aggregate.selected_runs.best_run_index
            worst  == result.aggregate.selected_runs.worst_run_index
            grid   == result.trajectories.x_coin_in
        IN  /\ \A i \in 1..Len(nets) : result.runs[i].run_index = i
            /\ best = FirstWith(nets, MaxNet(nets))
            /\ worst = FirstWith(nets, MinNet(nets))
            /\ result.trajectories.best = run[r].downsampledRuns[best]
            /\ result.trajectories.worst = run[r].downsampledRuns[worst]
            /\ Len(result.trajectories.best) = Len(grid)
            /\ Len(result.trajectories.worst) = Len(grid)

\* a result of three sessions: the second and the third end with the same
\* final net, the largest, the first with a smaller one; the best session is
\* the second, the worst the first, and their traces differ
C20_Witness ==
    \E r \in RunIds :
      /\ AllSessionsRun(r)
      /\ LET result == run[r].result
             nets   == FinalNetsOf(result)
         IN  /\ Len(nets) = 3
             /\ nets[2] = nets[3]
             /\ nets[1] < nets[2]
             /\ result.aggregate.selected_runs.best_run_index = 2
             /\ result.aggregate.selected_runs.worst_run_index = 1
             /\ result.trajectories.best # result.trajectories.worst

\* C21: for N >= 1 sessions sampleRunIndices(N, step) returns the numbers 1,
\* the multiples of step up to N, and N, each once and in strictly ascending
\* order; every one of them is the index of a session.
C21_SampleIndices ==
    (calc.step = "indexed" /\ calc.totalRuns >= 1) =>
      LET N       == calc.totalRuns
          indices == calc.value
      IN  /\ {indices[j] : j \in 1..Len(indices)}
               = {1} \cup {k * calc.sampleStep : k \in 1..(N \div calc.sampleStep)} \cup {N}
          /\ \A j \in 1..(Len(indices) - 1) : indices[j] < indices[j + 1]
          /\ \A j \in 1..Len(indices) : indices[j] \in 1..N

\* the indices of 250 sessions at the default step are 1, 100, 200, 250
C21_Witness ==
    /\ calc.step = "indexed"
    /\ calc.totalRuns = 250
    /\ calc.sampleStep = SampleStep
    /\ calc.value = <<1, 100, 200, 250>>

\* a thousandth of a cent, the unit in which the traces are compared
Milli == Cent \div 1000

\* the point (x, y) lies on the line through (x0, y0) and (x1, y1)
OnTheLine(x0, x1, y0, y1, x, y) ==
    /\ \A v \in {x0, x1, y0, y1, x, y} : v % Milli = 0
    /\ ((y - y0) \div Milli) * ((x1 - x0) \div Milli)
         = ((x - x0) \div Milli) * ((y1 - y0) \div Milli)

\* C22: for a trace and a grid that never decrease downsampleTrajectory
\* returns one value for each grid point: the first net value for a grid
\* point at or before the first trace point, the last net value for one
\* beyond the last trace point, and otherwise the value at the grid point of
\* the line through the two trace samples around it; the cursor into the
\* trace never moves back from one grid point to the next.
C22_Downsample ==
    calc.step = "downsampled" =>
      LET coinIn == calc.coinIn
          net    == calc.net
          grid   == calc.grid
      IN  /\ Len(calc.value) = Len(grid)
          /\ \A i \in 1..Len(grid) :
               IF grid[i] <= coinIn[1] THEN calc.value[i] = net[1]
               ELSE IF grid[i] > coinIn[Len(coinIn)] THEN calc.value[i] = net[Len(net)]
               ELSE \E k \in 1..(Len(coinIn) - 1) :
                      /\ coinIn[k] < grid[i]
                      /\ grid[i] <= coinIn[k + 1]
                      /\ OnTheLine(coinIn[k], coinIn[k + 1], net[k], net[k + 1],
                                   grid[i], calc.value[i])
          /\ Len(calc.cursor) = Len(grid)
          /\ \A i \in 1..(Len(grid) - 1) : calc.cursor[i] <= calc.cursor[i + 1]

\* a trace of four samples on a grid of five points: the first value is the
\* first net value, the second lies strictly between two net values, and
\* the cursor has moved on
C22_Witness ==
    /\ calc.step = "downsampled"
    /\ Len(calc.coinIn) = 4
    /\ Len(calc.grid) = 5
    /\ calc.value[1] = calc.net[1]
    /\ calc.value[2] \notin {calc.net[i] : i \in 1..Len(calc.net)}
    /\ calc.cursor[1] = 0
    /\ calc.cursor[5] > 1

\* the trace samples k and k + 1 have the same wagered value, and no other
\* sample has it
ZeroWidthAt(coinIn, k) ==
    /\ k \in 1..(Len(coinIn) - 1)
    /\ coinIn[k] = coinIn[k + 1]
    /\ \A j \in 1..Len(coinIn) : coinIn[j] = coinIn[k] => j \in {k, k + 1}

\* C23: when two neighbouring trace samples have the same wagered value and
\* a grid point lies on that value, downsampleTrajectory returns at that
\* grid point the net value of the later of the two samples.
C23_ZeroWidthTakesLater ==
    calc.step = "downsampled" =>
      \A k \in 1..(Len(calc.coinIn) - 1), i \in 1..Len(calc.grid) :
        (ZeroWidthAt(calc.coinIn, k) /\ calc.grid[i] = calc.coinIn[k]) =>
          calc.value[i] = calc.net[k + 1]

\* the largest of the first j net values of the session of run r; the first
\* is the 0 the session starts with
RECURSIVE PeakUpTo(_, _)
PeakUpTo(history, j) ==
    IF j = 1 THEN history[1] ELSE Max(PeakUpTo(history, j - 1), history[j])

\* the drawdowns of the session after each of its spins so far, and 0
DrawdownsOf(history) ==
    {0} \cup {PeakUpTo(history, j) - history[j] : j \in 1..Len(history)}

\* the positions from the first statement of a session to its recording
InSession == {"while", "topup", "debit", "sample", "credit", "record"}

\* C24: in every state of a session peakNet is the largest of 0 and the net
\* values seen so far, maxDrawdown is the largest of the differences
\* peakNet - net after the spins so far and is not negative; and no step of
\* the session makes maxDrawdown smaller.
C24_PeakAndDrawdown ==
    /\ [](\A r \in RunIds :
            run[r].pc \in InSession =>
              /\ run[r].netHistory[1] = 0
              /\ run[r].netHistory[Len(run[r].netHistory)] = run[r].net
              /\ run[r].peakNet = PeakUpTo(run[r].netHistory, Len(run[r].netHistory))
              /\ run[r].maxDrawdown \in DrawdownsOf(run[r].netHistory)
              /\ \A d \in DrawdownsOf(run[r].netHistory) : d <= run[r].maxDrawdown
              /\ run[r].maxDrawdown >= 0)
    /\ [][\A r \in RunIds :
            (run[r].pc \in InSession /\ run'[r].pc \in InSession) =>
              run'[r].maxDrawdown >= run[r].maxDrawdown]_vars

\* a session that has been above 0, is below its peak, and whose largest
\* drawdown is larger than the present one
C24_Witness ==
    \E r \in RunIds :
      /\ run[r].pc \in InSession
      /\ run[r].spins >= 3
      /\ run[r].peakNet > 0
      /\ run[r].net < run[r].peakNet
      /\ run[r].maxDrawdown > run[r].peakNet - run[r].net

\* an amount in ticks that is a whole number of cents
WholeCents(amount) == amount % Cent = 0

\* C25: the payout of every spin is a whole number of cents, and with it
\* total_payout and net in every state of a session, and the balance when
\* the top-up amount is one.
C25_PayoutsInWholeCents ==
    \A r \in RunIds :
      run[r].pc \in InSession =>
        /\ WholeCents(run[r].payout)
        /\ WholeCents(run[r].totalPayout)
        /\ WholeCents(run[r].net)
        /\ WholeCents(DepositAmount(run[r].inputs)) => WholeCents(run[r].balance)

\* inputs with a known volatility, a bet of at least one cent and at least
\* one session
Eligible(inputs) ==
    /\ inputs.volatility \in DOMAIN VOLATILITY_SETTINGS
    /\ BetCents(inputs) >= 1
    /\ inputs.runs >= 1

\* run r has posted 'done' with a result of all its sessions, numbered in
\* order, each with the target wagered
DoneWithAllSessions(r) ==
    \E i \in Positions(r, {"done"}) :
      LET result == outbox[i].payload.result
      IN  /\ Len(result.runs) = run[r].inputs.runs
          /\ \A k \in 1..Len(result.runs) :
               /\ result.runs[k].run_index = k
               /\ result.runs[k].total_coin_in = TargetCents(run[r].inputs) * Cent

\* C26: a run started with a bet of at least one cent and at least one
\* session, to which no cancel request is sent and whose worker has
\* crypto.randomUUID, comes to post 'done' with exactly its sessions, numbered
\* 1, 2, ... in order, every one of which has reached the target.
C26_RunEndsWithDone ==
    \A r \in RunIds :
      (Started(r) /\ Eligible(run[r].inputs))
        ~> \/ DoneWithAllSessions(r)
           \/ env.cancels < MaxCancels
           \/ env.randomUUID = "undefined"

\* 'done' was posted for a run of two sessions whose top-up amount of 0 was
\* raised to one cent: each session was topped up until the wagers were
\* covered
C26_Witness ==
    \E r \in RunIds :
      /\ DoneWithAllSessions(r)
      /\ env.cancels = MaxCancels
      /\ run[r].inputs.deposit_amount = 0
      /\ run[r].inputs.runs = 2
      /\ \A k \in 1..2 : run[r].runs[k].total_cash_in >= 2 * Cent

\* the smallest number of top-ups of the given amount that make the balance
\* cover the wager
TopUpsNeeded(balance, wager, amount) ==
    IF balance >= wager THEN 0 ELSE (wager - balance + amount - 1) \div amount

\* the cash injected up to and including spin k of the session of run r when
\* every top-up is injected because the balance does not cover the next
\* wager, and as few are injected as cover it: [balance, cash] after spin k;
\* the wagers and payouts are those of the session
RECURSIVE CashByNeed(_, _)
CashByNeed(r, k) ==
    IF k = 0 THEN [balance |-> 0, cash |-> 0]
    ELSE LET before == CashByNeed(r, k - 1)
             wager  == WagerOf(r, k)
             payout == run[r].netHistory[k + 1] - run[r].netHistory[k] + wager
             amount == DepositAmount(run[r].inputs)
             added  == TopUpsNeeded(before.balance, wager, amount) * amount
         IN  [balance |-> before.balance + added - wager + payout,
              cash    |-> before.cash + added]

\* C27: at the end of a session totalCashIn is the sum of the top-ups
\* injected because the balance did not cover the next wager, the fewest
\* that cover it before each spin, and of nothing else.
C27_CashInIsTopUpsByNeed ==
    \A r \in RunIds :
      run[r].pc = "record" =>
        run[r].totalCashIn = CashByNeed(r, run[r].spins).cash

\* the mean of a returned distribution: the sum of its multipliers, each
\* times its step of the cdf
MeanOf(d) ==
    RSum([i \in 1..Len(d.multipliers) |->
            RMul(RSub(d.cdf[i], IF i = 1 THEN Whole(0) ELSE d.cdf[i - 1]),
                 d.multipliers[i])])

\* C28: the loop of capAwareCalibration makes at most 20 passes; the mean of
\* the distribution it returns does not exceed the target return, and is the
\* target return when the loop is left after a pass that capped no outcome.
C28_RebalancingUndershoots ==
    (Calibrated /\ calc.rebalance.exit # "not called") =>
      /\ calc.rebalance.guard <= 20
      /\ RLeq(MeanOf(calc.distribution), calc.rtpMean)
      /\ calc.distribution.mean = MeanOf(calc.distribution)
      /\ calc.rebalance.exit = "none capped" => MeanOf(calc.distribution) = calc.rtpMean

\* a second pass capped nothing after the first had capped an outcome, and
\* the mean of the distribution is the target return
C28_Witness ==
    /\ Calibrated
    /\ calc.rebalance.exit = "none capped"
    /\ calc.rebalance.guard >= 2
    /\ MeanOf(calc.distribution) = calc.rtpMean

\* the two identities of the accounts in a RunMetrics
Balanced(metrics) ==
    /\ metrics.final_net = metrics.total_payout - metrics.total_coin_in
    /\ metrics.ending_balance = metrics.total_cash_in + metrics.final_net

\* C29: between the spins of a session net is the total payout less the total
\* wagered and the balance is totalCashIn plus net; every RunMetrics recorded
\* or reported has final_net = total_payout - total_coin_in and
\* ending_balance = total_cash_in + final_net; and a session starts with no
\* coin-in, payout, net, peak, drawdown or spins, and with the deposit as its
\* balance and its cash-in, whatever the session before left.
C29_AccountsBalance ==
    /\ [](\A r \in RunIds :
            /\ run[r].pc \in {"while", "record"} =>
                 /\ run[r].net = run[r].totalPayout - run[r].coinInCents * Cent
                 /\ run[r].balance = run[r].totalCashIn + run[r].net
            /\ \A k \in 1..Len(run[r].runs) : Balanced(run[r].runs[k])
            /\ run[r].result # <<>> =>
                 \A k \in 1..Len(run[r].result.runs) : Balanced(run[r].result.runs[k]))
    /\ [][\A r \in RunIds :
            (run[r].pc = "for" /\ run'[r].pc = "while") =>
              /\ run'[r].coinInCents = 0
              /\ run'[r].totalPayout = 0
              /\ run'[r].net = 0
              /\ run'[r].peakNet = 0
              /\ run'[r].maxDrawdown = 0
              /\ run'[r].spins = 0
              /\ run'[r].coinInHistory = <<0>>
              /\ run'[r].netHistory = <<0>>
              /\ run'[r].balance = DepositAmount(run[r].inputs)
              /\ run'[r].totalCashIn = run'[r].balance]_vars

\* a second session between two of its spins, after a first session that
\* ended with a net, a peak or a drawdown other than 0 and with more cash put
\* in than the deposit
C29_Witness ==
    \E r \in RunIds :
        /\ run[r].pc = "while"
        /\ run[r].spins >= 1
        /\ run[r].net # 0
        /\ Len(run[r].runs) >= 1
        /\ run[r].runs[1].final_net # 0
        /\ run[r].runs[1].max_drawdown # 0
        /\ run[r].runs[1].total_cash_in > DepositAmount(run[r].inputs)
        /\ run[r].runs[1].ending_balance # DepositAmount(run[r].inputs)

\* the messages of a type among the first n of a sequence
OfType(messages, n, type) == {k \in 1..n : messages[k].type = type}

\* C30: with the App and the worker together, a simulate request is posted
\* only while running is not set and running is cleared only by a terminal
\* message; at most one run is in flight in the worker; and the flag of the
\* worker is set during a run, and a run answers 'cancelled', only when Cancel
\* was pressed during that very run.
C30_OneRunAndOwnCancel ==
    /\ [](/\ Cardinality({r \in RunIds : InFlight(r)}) <= 1
          /\ \A r \in RunIds : InFlight(r) => env.app.running /\ r = env.app.sent
          /\ \A r \in RunIds : (InFlight(r) /\ cancelled) => r \in env.app.cancelsFor
          /\ \A k \in OfType(outbox, Len(outbox), "cancelled") :
                outbox[k].rid \in env.app.cancelsFor
          /\ Cardinality(OfType(env.app.inbox, Len(env.app.inbox), "simulate")) <= 1)
    /\ [][/\ env'.app.sent # env.app.sent => ~env.app.running
          /\ (env.app.running /\ ~env'.app.running) =>
                /\ env'.app.received = env.app.received + 1
                /\ outbox[env'.app.received].type \in TerminalTypes]_vars

\* Cancel was pressed during the first run only, the worker handled it after
\* that run had answered 'done', and the second run has answered 'done' too
C30_Witness ==
    /\ env.app.cancelsFor = {1}
    /\ env.app.inbox = <<>>
    /\ OfType(outbox, Len(outbox), "cancelled") = {}
    /\ \E j, k \in OfType(outbox, Len(outbox), "done") :
         outbox[j].rid = 1 /\ outbox[k].rid = 2
    /\ ~env.app.running

====
